---------------------------- MODULE Spec2Model ----------------------------
(***************************************************************************)
(* Equity-curve construction and metrics derivation of AlgoforceAnalytics. *)
(*                                                                         *)
(* Dollar amounts are integers (one unit is 1e-7 dollar where rounding to  *)
(* six decimals is modelled, 1e-9 dollar in the streak section where the   *)
(* epsilon is modelled).  A quotient of two amounts is kept exact as a     *)
(* reduced fraction, or as one of the IEEE values NaN, +Inf, -Inf that the *)
(* float division of pandas produces for a zero denominator.               *)
(*                                                                         *)
(* A DataFrame is a record [cols, index, rows]: the column labels in       *)
(* order, the day labels in order, and one function column -> value per    *)
(* index entry.  Account lists hold no identifier twice: a repeated        *)
(* identifier gives a frame with a repeated column label, on which the     *)
(* scalar accessors (.at, float(row[a])) raise, so no row is produced.     *)
(*                                                                         *)
(* In the ledger section amounts are whole dollars and a timestamp counts  *)
(* the seconds of a clock whose day has DayLen seconds; a Series with gaps *)
(* is a function whose domain holds the days that have a value.            *)
(***************************************************************************)
EXTENDS Integers, Sequences, FiniteSets, TLC

VARIABLES
    pc,             \* position of the request being served
    accs,           \* the requested account list
    fixed,          \* realized equity frame of the request
    unreal_map,     \* unrealized.json baseline: account -> offset
    up_map,         \* what read_upnl returned: account -> uPnL, plus "total"
    margin,         \* margin equity frame
    fixed_with_up,  \* realized frame with uPnL injected into its last row
    margin_last,    \* one-row frame of build_margin_last_day
    dd,             \* drawdown block of the payload
    series,         \* serialized equity blocks of the payload
    level_frame,    \* a frame of equity levels handed to the metrics engine
    returns_out,    \* pct_returns(levels)
    mtd_out,        \* mtd_return(levels)
    mtd_dd_out,     \* mtd_max_dd_from_levels(levels)
    max_dd_out,     \* _max_dd_from_levels(levels)
    daily_pnl,      \* a daily net-PnL series handed to the streak functions
    streak_out,     \* (streak, tail) of _streak_from_series
    tail_out,       \* (streak, tail) of _current_losing_streak_tail, with its flags
    balance_table,  \* the account's balance snapshots: rows [ts, bal]
    events,         \* the account's trade, transaction and earnings rows, by time
    init_val,       \* what _initial_balance_at_start returned
    bal,            \* the account's column of build_day_end_balances_fixed
    req_accounts,   \* the accounts losing_days_mtd is asked for
    trade_rows,     \* the trade rows of the store: [account, time, realizedPnl, commission]
    cut_hour,       \* the local cut-over hour of the day labels
    today_ts,       \* the clock handed to losing_days_mtd as today
    losing,         \* what losing_days_mtd returned
    upnl_accounts,  \* accounts handed to read_upnl
    live_store,     \* value held under "{account}_live", per account
    mget_reply,     \* how the store answers r.mget(keys)
    upnl_out,       \* what read_upnl returned or raised
    live_accs,      \* accounts of the live returns block
    live_fixed,     \* realized levels, last row read
    live_init,      \* init_map: opening balance per account
    live_up,        \* up_map: what read_upnl returned
    live_unreal,    \* unreal_map: the unrealized baseline
    live_block,     \* what _live_returns_block returned
    grp_accs,       \* accounts of the request
    grp_fixed,      \* realized levels of the request
    grp_unreal,     \* unreal_map: the unrealized baseline
    grp_up,         \* up_map: what read_upnl returned
    accounts_index, \* accounts.json rows by redisName
    strategy_groups,\* {strategy: [accounts...]}
    performance_by_strategy,\* the performanceByStrategy block
    pay_accounts,   \* accounts as handed to build_metrics_payload
    pay_accs,       \* accs: stripped, lower-cased, blanks dropped
    pay_fixed,      \* fixed: realized levels
    pay_init,       \* init_map
    pay_up,         \* up_map
    pay_unreal,     \* unreal_map
    pay_margin,     \* margin
    pay_live,       \* the live returns block
    pay_dd,         \* the current drawdown block
    pay_out,        \* what build_metrics_payload returned or raised
    endpoint,       \* the route a request is sent to
    accounts_param, \* the accounts parameter of the request
    monitored,      \* load_accounts(monitored_only=True)
    open_equity,    \* accounts with a month-open balance
    response,       \* the answer of the endpoint
    real_path,      \* the package that serves the request: api or api_test
    real_table,     \* balance snapshots of the account
    real_events,    \* ledger rows of the account, by time
    real_init,      \* opening balance of the account
    real_levels,    \* realized levels of the account, per day
    real_ret,       \* MTD return of the realized levels
    real_dd,        \* MTD max drawdown of the realized levels
    accounts_file,  \* rows of accounts.json
    shared_store,   \* live uPnL per account in the store
    engine_cache,   \* lru_cache of get_engine
    accounts_cache, \* lru_cache of load_accounts
    all_accounts_cache,\* lru_cache of _load_all_accounts
    requests,       \* the requests in flight
    snap_table,     \* the balance snapshots of the account looked up: rows [ts, bal]
    as_of,          \* the timestamp the lookup is asked for
    snap_path,      \* which copy of the lookup ran
    snapshot_out,   \* (bal, ts) the lookup returned
    rd_endpoint,    \* the handler whose request reads the live store
    rd_accs,        \* the accounts of that request
    kv_store,       \* the live store as it is now: account -> stored value
    writes_left,    \* store writes the feed may still make
    rd_i,           \* position of the per-account loop of metrics_bulk_mtd
    up_used,        \* the map of the first read, used for the injection
    injected,       \* live uPnL added to the last margin row, per account
    upnl_block,     \* the uPnl block of the response: combined, perAccount
    sym_accs,       \* the accounts of the request
    sym_rows,       \* the trade rows of the store: [account, symbol, time, realizedPnl, commission]
    sym_feed,       \* per account, the trades build_fixed_balances read
    sym_out         \* (symbols, totals) of pnl_by_symbol_mtd

marginVars == <<accs, fixed, unreal_map, up_map, margin, fixed_with_up,
                margin_last, dd, series>>
metricVars == <<level_frame, returns_out, mtd_out, mtd_dd_out, max_dd_out>>
streakVars == <<daily_pnl, streak_out, tail_out>>
ledgerVars == <<balance_table, events, init_val, bal>>
losingVars == <<req_accounts, trade_rows, cut_hour, today_ts, losing>>
upnlVars == <<upnl_accounts, live_store, mget_reply, upnl_out>>
liveVars == <<live_accs, live_fixed, live_init, live_up, live_unreal, live_block>>
groupVars == <<grp_accs, grp_fixed, grp_unreal, grp_up, accounts_index, strategy_groups, performance_by_strategy>>
payloadVars == <<pay_accounts, pay_accs, pay_fixed, pay_init, pay_up, pay_unreal, pay_margin, pay_live, pay_dd, pay_out>>
endpointVars == <<endpoint, accounts_param, monitored, open_equity, response>>
realizedVars == <<real_path, real_table, real_events, real_init, real_levels, real_ret, real_dd>>
requestVars == <<accounts_file, shared_store, engine_cache, accounts_cache, all_accounts_cache, requests>>
snapshotVars == <<snap_table, as_of, snap_path, snapshot_out>>
readVars == <<rd_endpoint, rd_accs, kv_store, writes_left, rd_i, up_used, injected, upnl_block>>
symbolVars == <<sym_accs, sym_rows, sym_feed, sym_out>>

vars == <<pc, marginVars, metricVars, streakVars, ledgerVars, losingVars,
         upnlVars, liveVars, groupVars, payloadVars, endpointVars,
         realizedVars, requestVars, snapshotVars, readVars, symbolVars>>

--------------------------------------------------------------------------
(* Bounds of the model *)

\* longest window, in days, of a frame
MaxDays == 2
\* days in a calendar month of the model's calendar
MonthLen == 3
\* longest level series handed to the metrics engine
MaxRows == 3
\* longest daily net-PnL series handed to the streak functions
MaxLen == 4
\* most ledger rows of an account
MaxEvents == 2
\* seconds in a day of the model's clock
DayLen == 2
\* most open positions in a stored live payload
MaxPositions == 2
\* longest accounts parameter of a query string, in characters
MaxParam == 3
\* requests in flight at once
MaxRequests == 2
\* writes of the position feed to the live store while a request runs
MaxWrites == 2

Accounts == {"fund2", "fund3"}
AccountLists == {<<>>, <<"fund2">>, <<"fund2", "fund3">>}
Levels == {0, 4, 16}
OffsetValues == {3}
UpnlValues == {-4, 16}
MetricLevels == {-4, 0, 4, 16}
\* daily net PnL in units of 1e-9 dollar: -1 and 1 are -eps and +eps
DailyValues == {-3, -2, -1, 0, 1, 5}
\* eps: float = 1e-9
EPS == 1

--------------------------------------------------------------------------
(* Numbers *)

Abs(x) == IF x < 0 THEN -x ELSE x

RECURSIVE GCD(_, _)
GCD(a, b) == IF b = 0 THEN a ELSE GCD(b, a % b)

NaN == [k |-> "nan", n |-> 0, d |-> 1]
PInf == [k |-> "inf", n |-> 1, d |-> 1]
NInf == [k |-> "inf", n |-> -1, d |-> 1]
Fin(n, d) ==
    LET g == GCD(Abs(n), Abs(d))
        s == IF d < 0 THEN -1 ELSE 1
    IN  [k |-> "fin", n |-> (s * n) \div g, d |-> (s * d) \div g]
Zero == [k |-> "fin", n |-> 0, d |-> 1]

\* float division n / d
FDiv(n, d) ==
    IF d # 0 THEN Fin(n, d)
    ELSE IF n = 0 THEN NaN
    ELSE IF n > 0 THEN PInf ELSE NInf

IsNaN(x) == x.k = "nan"
IsFinite(x) == x.k = "fin"

\* float comparison x <= y: false when either side is NaN
FLeq(x, y) ==
    CASE IsNaN(x) \/ IsNaN(y) -> FALSE
      [] x.k = "inf" /\ x.n < 0 -> TRUE
      [] y.k = "inf" /\ y.n > 0 -> TRUE
      [] x.k = "inf" \/ y.k = "inf" -> FALSE
      [] OTHER -> x.n * y.d <= y.n * x.d

RECURSIVE SumOver(_, _)
SumOver(f, S) ==
    IF S = {} THEN 0
    ELSE LET x == CHOOSE y \in S : TRUE IN f[x] + SumOver(f, S \ {x})

RECURSIVE SeqSum(_)
SeqSum(s) == IF s = <<>> THEN 0 ELSE s[1] + SeqSum(Tail(s))

Range(s) == {s[i] : i \in DOMAIN s}

\* dict.get(key, 0.0)
Get(m, key) == IF key \in DOMAIN m THEN m[key] ELSE 0

\* the half-way case of round(): ties go to the even sixth decimal
Round6Tie(q) == IF q % 2 = 0 THEN 10 * q ELSE 10 * (q + 1)

\* round6: amounts carry seven decimals, the result has the seventh at 0
round6(x) ==
    LET q == x \div 10
        r == x % 10
    IN  IF r < 5 THEN 10 * q
        ELSE IF r > 5 THEN 10 * (q + 1)
        ELSE Round6Tie(q)

--------------------------------------------------------------------------
(* Frames *)

EmptyFrame == [cols |-> <<>>, index |-> <<>>, rows |-> <<>>]

\* DataFrame.empty: no row or no column
Empty(df) == Len(df.index) = 0 \/ Len(df.cols) = 0

\* df[a] = df[a] + x
AddToColumn(df, a, x) ==
    [df EXCEPT !.rows = [i \in DOMAIN df.rows |->
                            [df.rows[i] EXCEPT ![a] = @ + x]]]

\* df.at[i, a] = v
SetAt(df, i, a, v) == [df EXCEPT !.rows[i][a] = v]

\* df[cols].sum(axis=1) at row i
RowSum(df, i, cols) == SeqSum([j \in DOMAIN cols |-> df.rows[i][cols[j]]])

\* df.assign(total=df[cols].sum(axis=1))
AssignTotal(df, cols) ==
    [cols |-> IF "total" \in Range(df.cols) THEN df.cols
              ELSE Append(df.cols, "total"),
     index |-> df.index,
     rows |-> [i \in DOMAIN df.rows |->
                 [c \in DOMAIN df.rows[i] \cup {"total"} |->
                     IF c = "total" THEN RowSum(df, i, cols)
                     ELSE df.rows[i][c]]]]

\* the frames a window of n days over the columns cols can hold
FramesOver(cols, n) ==
    {[cols |-> cols, index |-> [i \in 1..n |-> i - 1], rows |-> r] :
        r \in [1..n -> [Range(cols) -> Levels]]}


\* df[c] as a sequence of values
Column(df, c) == [i \in DOMAIN df.rows |-> df.rows[i][c]]

\* idx.year * 100 + idx.month of a day label
YearMonth(day) == day \div MonthLen

RECURSIVE SeqMax(_)
SeqMax(s) ==
    IF Len(s) = 1 THEN s[1]
    ELSE LET m == SeqMax(Tail(s)) IN IF s[1] >= m THEN s[1] ELSE m

\* df.loc[ym == latest]: the rows of the latest month present in the index
LatestMonth(df) ==
    LET latest == SeqMax([i \in DOMAIN df.index |-> YearMonth(df.index[i])])
        keep == SelectSeq([i \in DOMAIN df.index |-> i],
                          LAMBDA i : YearMonth(df.index[i]) = latest)
    IN  [cols |-> df.cols,
         index |-> [j \in DOMAIN keep |-> df.index[keep[j]]],
         rows |-> [j \in DOMAIN keep |-> df.rows[keep[j]]]]

--------------------------------------------------------------------------
(* Returns: api/metrics/performance_metrics/calculations/returns.py *)

\* out.where(~out.isna(), 0.0)
WhereNotNaN(x) == IF IsNaN(x) THEN Zero ELSE x

\* pct_returns on one column: (balance - prev) / prev with prev = shift(1);
\* the first row has prev = NaN, so its quotient is NaN
pct_returns(s) ==
    [i \in DOMAIN s |->
        IF i = 1 THEN WhereNotNaN(NaN)
        ELSE WhereNotNaN(FDiv(s[i] - s[i - 1], s[i - 1]))]

\* mtd_return: (last - first) / first over the latest month, per column
mtd_return(balance) ==
    IF Empty(balance) THEN << >>
    ELSE LET month == LatestMonth(balance)
             n == Len(month.rows)
         IN  [c \in Range(month.cols) |->
                 IF month.rows[1][c] # 0
                 THEN FDiv(month.rows[n][c] - month.rows[1][c], month.rows[1][c])
                 ELSE Zero]

--------------------------------------------------------------------------
(* Drawdown: calculations/drawdown.py and calculations/all_time_dd.py *)

\* s.cummax() at position i
CumMax(s, i) == SeqMax(SubSeq(s, 1, i))

\* Series.min(): NaN entries are skipped; NaN when nothing is left
RECURSIVE FMin(_)
FMin(s) ==
    IF s = <<>> THEN NaN
    ELSE LET m == FMin(Tail(s))
         IN  IF IsNaN(s[1]) THEN m
             ELSE IF IsNaN(m) THEN s[1]
             ELSE IF FLeq(s[1], m) THEN s[1] ELSE m

\* peak = s.cummax(); dd = (s - peak) / peak; float(dd.min())
MinDrawdown(s) ==
    FMin([i \in DOMAIN s |-> FDiv(s[i] - CumMax(s, i), CumMax(s, i))])

\* current_drawdown(live_value, peak_value)
current_drawdown(live_value, peak_value) ==
    IF peak_value # 0 THEN FDiv(live_value - peak_value, peak_value) ELSE Zero

\* the max drawdown of the latest month with its last row left out
mtd_max_dd_before_last_row(levels) ==
    IF Empty(levels) THEN << >>
    ELSE LET month == LatestMonth(levels)
             n == Len(month.rows)
         IN  [c \in Range(month.cols) |->
                 IF n = 1 THEN Zero
                 ELSE MinDrawdown(SubSeq(Column(month, c), 1, n - 1))]

\* mtd_max_dd_from_levels: per column, over the latest month
mtd_max_dd_from_levels(levels) ==
    IF Empty(levels) THEN << >>
    ELSE LET month == LatestMonth(levels)
         IN  [c \in Range(month.cols) |-> MinDrawdown(Column(month, c))]

\* _max_dd_from_levels: per column, over the whole span
max_dd_from_levels(levels) ==
    IF Empty(levels) THEN << >>
    ELSE [c \in Range(levels.cols) |-> MinDrawdown(Column(levels, c))]

--------------------------------------------------------------------------
(* Margin equity: calculations/equity.py, performance_metrics.py *)

\* for a in accounts: out[a] = out[a] + float(unrealized_map.get(a, 0.0))
RECURSIVE AddOffsets(_, _, _)
AddOffsets(out, unrealized_map, accounts) ==
    IF accounts = <<>> THEN out
    ELSE AddOffsets(AddToColumn(out, Head(accounts),
                                Get(unrealized_map, Head(accounts))),
                    unrealized_map, Tail(accounts))

\* for a in accounts: out.at[last, a] = out.at[last, a] + upnl_map.get(a, 0.0)
RECURSIVE InjectLast(_, _, _)
InjectLast(out, upnl_map, accounts) ==
    IF accounts = <<>> THEN out
    ELSE LET a == Head(accounts)
             last == Len(out.rows)
             next == IF a \in Range(out.cols)
                     THEN SetAt(out, last, a, out.rows[last][a] + Get(upnl_map, a))
                     ELSE out
         IN  InjectLast(next, upnl_map, Tail(accounts))

\* for a in accounts: out[a] = out[a] + upnl_map.get(a, 0.0), on every row
RECURSIVE InjectAll(_, _, _)
InjectAll(out, upnl_map, accounts) ==
    IF accounts = <<>> THEN out
    ELSE InjectAll(AddToColumn(out, Head(accounts), Get(upnl_map, Head(accounts))),
                   upnl_map, Tail(accounts))

\* build_margin_series with the live uPnL added to the whole column
build_margin_series_all_rows(fixed_balances, unrealized_map, upnl_map, accounts) ==
    IF Empty(fixed_balances)
    THEN [fixed_balances |-> fixed_balances, out |-> fixed_balances]
    ELSE [fixed_balances |-> fixed_balances,
          out |-> InjectAll(AddOffsets(fixed_balances, unrealized_map, accounts),
                            upnl_map, accounts)]

\* build_margin_series without the copy: out is the caller's frame
build_margin_series_no_copy(fixed_balances, unrealized_map, upnl_map, accounts) ==
    IF Empty(fixed_balances)
    THEN [fixed_balances |-> fixed_balances, out |-> fixed_balances]
    ELSE LET out == InjectLast(AddOffsets(fixed_balances, unrealized_map, accounts),
                               upnl_map, accounts)
         IN  [fixed_balances |-> out, out |-> out]

\* build_margin_series: the caller's frame after the call, and the frame returned
build_margin_series(fixed_balances, unrealized_map, upnl_map, accounts) ==
    IF Empty(fixed_balances)
    THEN [fixed_balances |-> fixed_balances, out |-> fixed_balances]
    ELSE LET out == InjectLast(AddOffsets(fixed_balances, unrealized_map, accounts),
                               upnl_map, accounts)
         IN  [fixed_balances |-> fixed_balances, out |-> out]

\* _inject_upnl_last_row: the caller's frame after the call, and the frame returned
inject_upnl_last_row(levels, upnl_map, accounts) ==
    IF Empty(levels) THEN [levels |-> levels, out |-> levels]
    ELSE [levels |-> levels, out |-> InjectLast(levels, upnl_map, accounts)]

\* _sum_row(df, last index, cols)
sum_row(df, cols) ==
    IF Empty(df) THEN 0
    ELSE LET last == Len(df.rows)
             take == SelectSeq(cols, LAMBDA c : c \in DOMAIN df.rows[last])
         IN  IF take = <<>> THEN 0 ELSE RowSum(df, last, take)

\* _current_dd_block: (current_dd_realized, current_dd_margin)
current_dd_block(accounts, fixed_df, margin_df, upnl_map) ==
    LET fixed_total == IF ~Empty(fixed_df) THEN AssignTotal(fixed_df, accounts)
                       ELSE fixed_df
        margin_total == IF ~Empty(margin_df) THEN AssignTotal(margin_df, accounts)
                        ELSE margin_df
        peak_fixed_total == IF ~Empty(fixed_total)
                            THEN SeqMax(Column(fixed_total, "total")) ELSE 0
        peak_margin_total == IF ~Empty(margin_total)
                             THEN SeqMax(Column(margin_total, "total")) ELSE 0
        curr_realized_total == sum_row(fixed_df, accounts) + Get(upnl_map, "total")
        last_margin_total == sum_row(margin_df, accounts)
        realized_a(a) ==
            IF ~Empty(fixed_df) /\ a \in Range(fixed_df.cols)
            THEN LET peak_a == SeqMax(Column(fixed_df, a))
                     live_a == fixed_df.rows[Len(fixed_df.rows)][a] + Get(upnl_map, a)
                 IN  IF peak_a # 0 THEN FDiv(live_a - peak_a, peak_a) ELSE Zero
            ELSE Zero
        margin_a(a) ==
            IF ~Empty(margin_df) /\ a \in Range(margin_df.cols)
            THEN LET peak_ma == SeqMax(Column(margin_df, a))
                     live_ma == margin_df.rows[Len(margin_df.rows)][a]
                 IN  IF peak_ma # 0 THEN FDiv(live_ma - peak_ma, peak_ma) ELSE Zero
            ELSE Zero
    IN  [realized |-> [k \in Range(accounts) \cup {"total"} |->
                          IF k = "total"
                          THEN IF peak_fixed_total # 0
                               THEN FDiv(curr_realized_total - peak_fixed_total,
                                         peak_fixed_total)
                               ELSE Zero
                          ELSE realized_a(k)],
         margin |-> [k \in Range(accounts) \cup {"total"} |->
                          IF k = "total"
                          THEN IF peak_margin_total # 0
                               THEN FDiv(last_margin_total - peak_margin_total,
                                         peak_margin_total)
                               ELSE Zero
                          ELSE margin_a(k)]]

--------------------------------------------------------------------------
(* Serialization: performance_metrics.py, api_test/utils/sql_balances.py *)

\* _serialize_series summing every column of the frame into total
serialize_series_all_columns(df, accounts) ==
    IF Empty(df) THEN << >>
    ELSE LET cols == SelectSeq(accounts, LAMBDA a : a \in Range(df.cols))
         IN  [i \in DOMAIN df.rows |->
                 [k \in Range(cols) \cup {"total"} |->
                     IF k = "total" THEN RowSum(df, i, df.cols)
                     ELSE df.rows[i][k]]]

\* _serialize_series: per index entry {acc: val, ..., total: sum(per.values())}
serialize_series(df, accounts) ==
    IF Empty(df) THEN << >>
    ELSE LET cols == SelectSeq(accounts, LAMBDA a : a \in Range(df.cols))
         IN  [i \in DOMAIN df.rows |->
                 LET per == [a \in Range(cols) |-> df.rows[i][a]]
                 IN  [k \in Range(cols) \cup {"total"} |->
                         IF k = "total" THEN SumOver(per, DOMAIN per)
                         ELSE per[k]]]

\* serialize_balances_6dp: per = round6 of each part, total = round6(sum(per))
serialize_balances_6dp(df, accounts) ==
    IF Empty(df) THEN << >>
    ELSE LET cols == SelectSeq(accounts, LAMBDA a : a \in Range(df.cols))
         IN  [i \in DOMAIN df.rows |->
                 LET per == [a \in Range(cols) |-> round6(df.rows[i][a])]
                 IN  [k \in Range(cols) \cup {"total"} |->
                         IF k = "total" THEN round6(SumOver(per, DOMAIN per))
                         ELSE per[k]]]

\* build_margin_last_day: one row, uPnL injected, total = sum(row[a] for a in accounts)
build_margin_last_day(fixed_balances, accounts, upnl) ==
    IF Empty(fixed_balances)
    THEN [cols |-> Append(accounts, "total"), index |-> <<>>, rows |-> <<>>]
    ELSE LET last == Len(fixed_balances.rows)
             row == [a \in Range(accounts) |->
                        fixed_balances.rows[last][a] + Get(upnl, a)]
         IN  [cols |-> Append(accounts, "total"),
              index |-> <<fixed_balances.index[last]>>,
              rows |-> <<[k \in Range(accounts) \cup {"total"} |->
                            IF k = "total"
                            THEN SeqSum([j \in DOMAIN accounts |-> row[accounts[j]]])
                            ELSE row[k]]>>]

--------------------------------------------------------------------------
(* all_time_dd.py: current and max drawdown of the realized levels *)

\* compute_all_time_max_current_dd from the realized levels and the uPnL map
all_time_max_current_dd(accounts, fixed_levels, upnl_map) ==
    LET levels_total == IF ~Empty(fixed_levels)
                        THEN AssignTotal(fixed_levels, accounts) ELSE fixed_levels
        current_of(k) ==
            LET s == Column(levels_total, k)
                peak == SeqMax(s)
                live == s[Len(s)] + Get(upnl_map, k)
            IN  IF peak # 0 THEN current_drawdown(live, peak) ELSE Zero
    IN  [current |-> IF Empty(levels_total) THEN << >>
                     ELSE [k \in Range(accounts) \cup {"total"} |-> current_of(k)],
         max |-> IF Empty(levels_total) THEN << >>
                 ELSE max_dd_from_levels(levels_total)]

--------------------------------------------------------------------------
(* The request of build_metrics_payload (api) and of                       *)
(* build_performance_payload (api_test), from the realized frame on        *)

\* what read_upnl returns for a store reply of k values
UpnlMaps(accounts) ==
    UNION {{[a \in {accounts[i] : i \in 1..k} \cup {"total"} |->
                IF a = "total" THEN SeqSum(v)
                ELSE v[CHOOSE i \in 1..k : accounts[i] = a]] :
              v \in [1..k -> UpnlValues]} : k \in 0..Len(accounts)}

UnrealMaps == UNION {[S -> OffsetValues] : S \in SUBSET Accounts}

NoBlock == << >>

EmptySeries == [index |-> <<>>, values |-> <<>>]

MarginIdle ==
    /\ accs = <<>>
    /\ fixed = EmptyFrame
    /\ unreal_map = << >>
    /\ up_map = << >>
    /\ margin = EmptyFrame
    /\ fixed_with_up = EmptyFrame
    /\ margin_last = EmptyFrame
    /\ dd = NoBlock
    /\ series = NoBlock

MetricsIdle ==
    /\ level_frame = EmptyFrame
    /\ returns_out = NoBlock
    /\ mtd_out = NoBlock
    /\ mtd_dd_out = NoBlock
    /\ max_dd_out = NoBlock

StreakIdle ==
    /\ daily_pnl = EmptySeries
    /\ streak_out = NoBlock
    /\ tail_out = NoBlock

LedgerIdle ==
    /\ balance_table = {}
    /\ events = <<>>
    /\ init_val = 0
    /\ bal = EmptySeries

LosingIdle ==
    /\ req_accounts = <<>>
    /\ trade_rows = {}
    /\ cut_hour = 0
    /\ today_ts = 0
    /\ losing = NoBlock

UpnlIdle ==
    /\ upnl_accounts = <<>>
    /\ live_store = <<>>
    /\ mget_reply = NoBlock
    /\ upnl_out = NoBlock

LiveIdle ==
    /\ live_accs = <<>>
    /\ live_fixed = EmptyFrame
    /\ live_init = <<>>
    /\ live_up = <<>>
    /\ live_unreal = <<>>
    /\ live_block = NoBlock

GroupsIdle ==
    /\ grp_accs = <<>>
    /\ grp_fixed = EmptyFrame
    /\ grp_unreal = <<>>
    /\ grp_up = <<>>
    /\ accounts_index = <<>>
    /\ strategy_groups = NoBlock
    /\ performance_by_strategy = NoBlock

PayloadIdle ==
    /\ pay_accounts = <<>>
    /\ pay_accs = <<>>
    /\ pay_fixed = EmptyFrame
    /\ pay_init = <<>>
    /\ pay_up = <<>>
    /\ pay_unreal = <<>>
    /\ pay_margin = EmptyFrame
    /\ pay_live = NoBlock
    /\ pay_dd = NoBlock
    /\ pay_out = NoBlock

EndpointsIdle ==
    /\ endpoint = ""
    /\ accounts_param = NoBlock
    /\ monitored = <<>>
    /\ open_equity = {}
    /\ response = NoBlock

RealizedIdle ==
    /\ real_path = ""
    /\ real_table = {}
    /\ real_events = <<>>
    /\ real_init = 0
    /\ real_levels = EmptySeries
    /\ real_ret = NoBlock
    /\ real_dd = NoBlock

RequestsIdle ==
    /\ accounts_file = <<>>
    /\ shared_store = <<>>
    /\ engine_cache = NoBlock
    /\ accounts_cache = NoBlock
    /\ all_accounts_cache = NoBlock
    /\ requests = <<>>

SnapshotIdle ==
    /\ snap_table = {}
    /\ as_of = 0
    /\ snap_path = ""
    /\ snapshot_out = NoBlock

ReadsIdle ==
    /\ rd_endpoint = ""
    /\ rd_accs = <<>>
    /\ kv_store = <<>>
    /\ writes_left = 0
    /\ rd_i = 0
    /\ up_used = NoBlock
    /\ injected = NoBlock
    /\ upnl_block = NoBlock

SymbolsIdle ==
    /\ sym_accs = <<>>
    /\ sym_rows = {}
    /\ sym_feed = NoBlock
    /\ sym_out = NoBlock

\* every section of the state but the named one is idle
OthersIdle(section) ==
    /\ IF section = "margin" THEN TRUE ELSE MarginIdle
    /\ IF section = "metrics" THEN TRUE ELSE MetricsIdle
    /\ IF section = "streak" THEN TRUE ELSE StreakIdle
    /\ IF section = "ledger" THEN TRUE ELSE LedgerIdle
    /\ IF section = "losing" THEN TRUE ELSE LosingIdle
    /\ IF section = "upnl" THEN TRUE ELSE UpnlIdle
    /\ IF section = "live" THEN TRUE ELSE LiveIdle
    /\ IF section = "groups" THEN TRUE ELSE GroupsIdle
    /\ IF section = "payload" THEN TRUE ELSE PayloadIdle
    /\ IF section = "endpoints" THEN TRUE ELSE EndpointsIdle
    /\ IF section = "realized" THEN TRUE ELSE RealizedIdle
    /\ IF section = "requests" THEN TRUE ELSE RequestsIdle
    /\ IF section = "snapshot" THEN TRUE ELSE SnapshotIdle
    /\ IF section = "reads" THEN TRUE ELSE ReadsIdle
    /\ IF section = "symbols" THEN TRUE ELSE SymbolsIdle

\* every section of the state but the named one stays as it is
OthersUnchanged(section) ==
    /\ IF section = "margin" THEN TRUE ELSE UNCHANGED marginVars
    /\ IF section = "metrics" THEN TRUE ELSE UNCHANGED metricVars
    /\ IF section = "streak" THEN TRUE ELSE UNCHANGED streakVars
    /\ IF section = "ledger" THEN TRUE ELSE UNCHANGED ledgerVars
    /\ IF section = "losing" THEN TRUE ELSE UNCHANGED losingVars
    /\ IF section = "upnl" THEN TRUE ELSE UNCHANGED upnlVars
    /\ IF section = "live" THEN TRUE ELSE UNCHANGED liveVars
    /\ IF section = "groups" THEN TRUE ELSE UNCHANGED groupVars
    /\ IF section = "payload" THEN TRUE ELSE UNCHANGED payloadVars
    /\ IF section = "endpoints" THEN TRUE ELSE UNCHANGED endpointVars
    /\ IF section = "realized" THEN TRUE ELSE UNCHANGED realizedVars
    /\ IF section = "requests" THEN TRUE ELSE UNCHANGED requestVars
    /\ IF section = "snapshot" THEN TRUE ELSE UNCHANGED snapshotVars
    /\ IF section = "reads" THEN TRUE ELSE UNCHANGED readVars
    /\ IF section = "symbols" THEN TRUE ELSE UNCHANGED symbolVars

InitMargin ==
    /\ pc = "start"
    /\ accs \in AccountLists
    /\ \E n \in 1..MaxDays : fixed \in FramesOver(accs, n)
    /\ unreal_map \in UnrealMaps
    /\ up_map \in UpnlMaps(accs)
    /\ margin = EmptyFrame
    /\ fixed_with_up = EmptyFrame
    /\ margin_last = EmptyFrame
    /\ dd = NoBlock
    /\ series = NoBlock
    /\ OthersIdle("margin")

\* margin = build_margin_series(fixed, unreal_map, up_map, accs)
BuildMarginSeries ==
    /\ pc = "start"
    /\ LET r == build_margin_series(fixed, unreal_map, up_map, accs)
       IN  /\ fixed' = r.fixed_balances
           /\ margin' = r.out
    /\ pc' = "margin"
    /\ UNCHANGED <<accs, unreal_map, up_map, fixed_with_up, margin_last, dd, series>>
    /\ OthersUnchanged("margin")

\* fixed_with_up = _inject_upnl_last_row(fixed, up_map, accs)
InjectUpnlLastRow ==
    /\ pc = "margin"
    /\ LET r == inject_upnl_last_row(fixed, up_map, accs)
       IN  /\ fixed' = r.levels
           /\ fixed_with_up' = r.out
    /\ pc' = "inject"
    /\ UNCHANGED <<accs, unreal_map, up_map, margin, margin_last, dd, series>>
    /\ OthersUnchanged("margin")

\* the drawdown block: _current_dd_block, mtd_max_dd_from_levels, all-time
Drawdowns ==
    /\ pc = "inject"
    /\ LET fixed_total_pure == IF ~Empty(fixed) THEN AssignTotal(fixed, accs) ELSE fixed
           margin_total == IF ~Empty(margin) THEN AssignTotal(margin, accs) ELSE margin
           cur == current_dd_block(accs, fixed, margin, up_map)
       IN  dd' = [realized |-> [current |-> cur.realized,
                                max |-> mtd_max_dd_from_levels(fixed_total_pure)],
                  margin |-> [current |-> cur.margin,
                              max |-> mtd_max_dd_from_levels(margin_total)],
                  all_time |-> all_time_max_current_dd(accs, fixed, up_map)]
    /\ pc' = "dd"
    /\ UNCHANGED <<accs, fixed, unreal_map, up_map, margin, fixed_with_up,
                   margin_last, series>>
    /\ OthersUnchanged("margin")

\* the equity blocks: _serialize_series of both frames with their totals
SerializeEquity ==
    /\ pc = "dd"
    /\ LET fixed_total_pure == IF ~Empty(fixed) THEN AssignTotal(fixed, accs) ELSE fixed
           margin_total == IF ~Empty(margin) THEN AssignTotal(margin, accs) ELSE margin
       IN  series' = [realized |-> serialize_series(fixed_total_pure, accs),
                      margin |-> serialize_series(margin_total, accs)]
    /\ pc' = "done"
    /\ UNCHANGED <<accs, fixed, unreal_map, up_map, margin, fixed_with_up,
                   margin_last, dd>>
    /\ OthersUnchanged("margin")

\* margin_last = build_margin_last_day(fixed_balances, accs)
BuildMarginLastDay ==
    /\ pc = "start"
    /\ margin_last' = build_margin_last_day(fixed, accs, up_map)
    /\ pc' = "margin_last"
    /\ UNCHANGED <<accs, fixed, unreal_map, up_map, margin, fixed_with_up, dd, series>>
    /\ OthersUnchanged("margin")

\* realized_block, margin_block = serialize_balances_6dp(...)
SerializeBalances ==
    /\ pc = "margin_last"
    /\ series' = [realized |-> serialize_balances_6dp(fixed, accs),
                  margin |-> serialize_balances_6dp(margin_last, accs)]
    /\ pc' = "done6"
    /\ UNCHANGED <<accs, fixed, unreal_map, up_map, margin, fixed_with_up,
                   margin_last, dd>>
    /\ OthersUnchanged("margin")

NextMargin ==
    \/ BuildMarginSeries
    \/ InjectUpnlLastRow
    \/ Drawdowns
    \/ SerializeEquity
    \/ BuildMarginLastDay
    \/ SerializeBalances

SpecMargin == InitMargin /\ [][NextMargin]_vars

--------------------------------------------------------------------------
(* Properties of the margin request *)

MarginBuilt == pc \in {"margin", "inject", "dd", "done"}

\* C1: in the frame build_margin_series returns, every account's value on
\* every day before the last index entry is realized + baseline offset (a
\* missing offset counts as 0); the live uPnL is in no row but the last.
C1_MarginEarlierRows ==
    (MarginBuilt /\ ~Empty(fixed)) =>
        \A i \in 1..(Len(margin.rows) - 1) : \A a \in Range(accs) :
            margin.rows[i][a] =
                fixed.rows[i][a]
                + (IF a \in DOMAIN unreal_map THEN unreal_map[a] ELSE 0)

\* C1 witness: a two-day, two-account margin frame, one account with an
\* offset and live uPnL, the other with neither an offset nor a store value
C1_Witness ==
    /\ pc = "margin"
    /\ accs = <<"fund2", "fund3">>
    /\ Len(fixed.rows) = 2
    /\ DOMAIN unreal_map = {"fund2"}
    /\ DOMAIN up_map = {"fund2", "total"}
    /\ up_map["fund2"] = 16
    /\ margin.rows[1]["fund2"] = fixed.rows[1]["fund2"] + 3
    /\ margin.rows[1]["fund3"] = fixed.rows[1]["fund3"]

\* the account entries of a serialized row
AccountKeys(row) == DOMAIN row \ {"total"}

TotalIsSum(block) ==
    \A i \in DOMAIN block :
        block[i]["total"] = SumOver(block[i], AccountKeys(block[i]))

\* C2: in every serialized equity row, realized and margin, of both
\* serializers, total is the sum of the row's per-account entries; the
\* one-row frame of build_margin_last_day carries the sum taken after the
\* live injection.
C2_TotalIsRowSum ==
    /\ pc \in {"done", "done6"} =>
          TotalIsSum(series.realized) /\ TotalIsSum(series.margin)
    /\ pc \in {"margin_last", "done6"} =>
          \A i \in DOMAIN margin_last.rows :
              margin_last.rows[i]["total"] =
                  SumOver([a \in Range(accs) |->
                              fixed.rows[Len(fixed.rows)][a]
                              + (IF a \in DOMAIN up_map THEN up_map[a] ELSE 0)],
                          Range(accs))

\* C2 witness: two accounts serialized after a live injection that moved
\* the last margin total away from the realized one
C2_Witness ==
    /\ pc = "done"
    /\ accs = <<"fund2", "fund3">>
    /\ Len(series.margin) = 2
    /\ up_map["total"] # 0
    /\ series.margin[2]["total"] =
          series.realized[2]["total"] + up_map["total"]
          + SumOver(unreal_map, DOMAIN unreal_map)
    /\ series.margin[2]["total"] # series.realized[2]["total"]

\* C6: build_margin_series and _inject_upnl_last_row leave the realized
\* frame as it was, and the margin last row of account a is
\* realized[last][a] + baselineOffset[a] + live[a].
C6_RealizedUntouched ==
    [][ /\ (pc = "start" /\ pc' = "margin") =>
              /\ fixed' = fixed
              /\ ~Empty(fixed) =>
                    \A a \in Range(accs) :
                        margin'.rows[Len(fixed.rows)][a] =
                            fixed.rows[Len(fixed.rows)][a]
                            + (IF a \in DOMAIN unreal_map THEN unreal_map[a] ELSE 0)
                            + (IF a \in DOMAIN up_map THEN up_map[a] ELSE 0)
        /\ (pc = "margin" /\ pc' = "inject") =>
              /\ fixed' = fixed
              /\ ~Empty(fixed) =>
                    \A a \in Range(accs) :
                        fixed_with_up'.rows[Len(fixed.rows)][a] =
                            fixed.rows[Len(fixed.rows)][a]
                            + (IF a \in DOMAIN up_map THEN up_map[a] ELSE 0)
      ]_vars

\* C6 witness: both calls made with a live value of +16 for fund2 on top
\* of an offset of 3; the realized last row differs from both results
C6_Witness ==
    /\ pc = "inject"
    /\ ~Empty(fixed)
    /\ "fund2" \in DOMAIN up_map /\ up_map["fund2"] = 16
    /\ "fund2" \in DOMAIN unreal_map
    /\ margin.rows[Len(fixed.rows)]["fund2"] =
          fixed.rows[Len(fixed.rows)]["fund2"] + 3 + 16
    /\ fixed_with_up.rows[Len(fixed.rows)]["fund2"] =
          fixed.rows[Len(fixed.rows)]["fund2"] + 16

AllNonPositive(m) == \A k \in DOMAIN m : FLeq(m[k], Zero)

\* C9: every drawdown value of the payload (current and max, realized and
\* margin, MTD and all-time, per account and total) is <= 0.
C9_DrawdownsNonPositive ==
    pc \in {"dd", "done"} =>
        /\ AllNonPositive(dd.realized.current)
        /\ AllNonPositive(dd.realized.max)
        /\ AllNonPositive(dd.margin.current)
        /\ AllNonPositive(dd.margin.max)
        /\ AllNonPositive(dd.all_time.current)
        /\ AllNonPositive(dd.all_time.max)

--------------------------------------------------------------------------
(* The metrics engine on a frame of levels *)

\* frames of one column over n consecutive days starting on day d0
LevelFrames ==
    {[cols |-> <<"fund2">>,
      index |-> [i \in 1..n |-> d0 + i - 1],
      rows |-> [i \in 1..n |-> [c \in {"fund2"} |-> v[i]]]] :
        <<n, d0, v>> \in
            UNION {{<<k, d, w>> : d \in 0..(MonthLen - 1), w \in [1..k -> MetricLevels]} :
                       k \in 1..MaxRows}}

InitMetrics ==
    /\ pc = "metrics"
    /\ level_frame \in LevelFrames
    /\ returns_out = NoBlock
    /\ mtd_out = NoBlock
    /\ mtd_dd_out = NoBlock
    /\ max_dd_out = NoBlock
    /\ OthersIdle("metrics")

\* r = pct_returns(balance), column by column
PctReturns ==
    /\ pc = "metrics"
    /\ returns_out = NoBlock
    /\ returns_out' = [c \in Range(level_frame.cols) |->
                          pct_returns(Column(level_frame, c))]
    /\ UNCHANGED <<pc, level_frame, mtd_out, mtd_dd_out, max_dd_out>>
    /\ OthersUnchanged("metrics")

\* mtd_return(balance)
MtdReturn ==
    /\ pc = "metrics"
    /\ mtd_out = NoBlock
    /\ mtd_out' = mtd_return(level_frame)
    /\ UNCHANGED <<pc, level_frame, returns_out, mtd_dd_out, max_dd_out>>
    /\ OthersUnchanged("metrics")

\* mtd_max_dd_from_levels(levels)
MtdMaxDd ==
    /\ pc = "metrics"
    /\ mtd_dd_out = NoBlock
    /\ mtd_dd_out' = mtd_max_dd_from_levels(level_frame)
    /\ UNCHANGED <<pc, level_frame, returns_out, mtd_out, max_dd_out>>
    /\ OthersUnchanged("metrics")

\* _max_dd_from_levels(levels)
MaxDd ==
    /\ pc = "metrics"
    /\ max_dd_out = NoBlock
    /\ max_dd_out' = max_dd_from_levels(level_frame)
    /\ UNCHANGED <<pc, level_frame, returns_out, mtd_out, mtd_dd_out>>
    /\ OthersUnchanged("metrics")

NextMetrics ==
    \/ PctReturns
    \/ MtdReturn
    \/ MtdMaxDd
    \/ MaxDd

SpecMetrics == InitMetrics /\ [][NextMetrics]_vars

--------------------------------------------------------------------------
(* Claims about the zero guards of returns and drawdowns *)

\* C7: pct_returns yields 0.0 on the first row and on every row whose
\* predecessor is exactly 0, and never NaN or an infinity; mtd_return yields
\* 0.0 for a column whose first value in the latest month is 0.
C7_ReturnsZeroGuard ==
    /\ returns_out # NoBlock =>
           \A c \in DOMAIN returns_out :
               LET s == Column(level_frame, c)
                   r == returns_out[c]
               IN  \A i \in DOMAIN r :
                       /\ IsFinite(r[i])
                       /\ (i = 1 \/ s[i - 1] = 0) => r[i] = Zero
    /\ mtd_out # NoBlock =>
           \A c \in DOMAIN mtd_out :
               /\ IsFinite(mtd_out[c])
               /\ LatestMonth(level_frame).rows[1][c] = 0 => mtd_out[c] = Zero

\* the drawdown the claim assigns to row i of a window: (level - running max)
\* / running max, and 0.0 where the running max is 0
ClaimedDrawdown(s, i) ==
    IF CumMax(s, i) = 0 THEN Zero ELSE FDiv(s[i] - CumMax(s, i), CumMax(s, i))

\* x is the least of the claimed drawdowns of the window s
IsClaimedMin(x, s) ==
    /\ \E i \in DOMAIN s : x = ClaimedDrawdown(s, i)
    /\ \A i \in DOMAIN s : FLeq(x, ClaimedDrawdown(s, i))

\* C8: mtd_max_dd_from_levels (latest month) and _max_dd_from_levels (whole
\* span) return, per column, the minimum over the window of (level - running
\* max) / running max, with 0.0 and never NaN where the running max is 0.
C8_MaxDrawdownIsMin ==
    /\ mtd_dd_out # NoBlock =>
           \A c \in DOMAIN mtd_dd_out :
               IsClaimedMin(mtd_dd_out[c], Column(LatestMonth(level_frame), c))
    /\ max_dd_out # NoBlock =>
           \A c \in DOMAIN max_dd_out :
               IsClaimedMin(max_dd_out[c], Column(level_frame, c))

--------------------------------------------------------------------------
(* Losing streaks: calculations/losing_days.py and
   utils/calculations/consecutive_losing_days.py *)

\* while i >= 0 and abs(vals[i]) <= eps: i -= 1     (positions from 1 here)
RECURSIVE SkipZeros(_, _)
SkipZeros(vals, i) ==
    IF i >= 1 /\ Abs(vals[i]) <= EPS THEN SkipZeros(vals, i - 1) ELSE i

\* is_loss(x): (x <= eps) if include_zero else (x < -eps)
is_loss(x, include_zero) == IF include_zero THEN x <= EPS ELSE x < -EPS

\* while i >= 0 and is_loss(vals[i]): streak += 1; i -= 1
RECURSIVE CountLosses(_, _, _)
CountLosses(vals, i, include_zero) ==
    IF i >= 1 /\ is_loss(vals[i], include_zero)
    THEN 1 + CountLosses(vals, i - 1, include_zero)
    ELSE 0

\* daily.iloc[first - 1 : last], positions from 1
Slice(daily, first, last) ==
    [index |-> SubSeq(daily.index, first, last),
     values |-> SubSeq(daily.values, first, last)]

\* _streak_from_series that counts from the last day, zero or not
streak_from_series_no_skip(daily) ==
    IF daily.values = <<>> THEN [streak |-> 0, tail |-> EmptySeries]
    ELSE LET vals == daily.values
             start == Len(vals)
             streak == CountLosses(vals, start, FALSE)
         IN  IF streak = 0 THEN [streak |-> 0, tail |-> EmptySeries]
             ELSE [streak |-> streak,
                   tail |-> Slice(daily, start - streak + 1, start)]

\* _streak_from_series(daily, eps): (streak, tail)
streak_from_series(daily) ==
    IF daily.values = <<>> THEN [streak |-> 0, tail |-> EmptySeries]
    ELSE LET vals == daily.values
             start == SkipZeros(vals, Len(vals))
         IN  IF start < 1 THEN [streak |-> 0, tail |-> EmptySeries]
             ELSE LET streak == CountLosses(vals, start, FALSE)
                  IN  IF streak = 0 THEN [streak |-> 0, tail |-> EmptySeries]
                      ELSE [streak |-> streak,
                            tail |-> Slice(daily, start - streak + 1, start)]

\* _current_losing_streak_tail(daily, include_zero, ignore_trailing_zero, eps)
current_losing_streak_tail(daily, include_zero, ignore_trailing_zero) ==
    IF daily.values = <<>> THEN [streak |-> 0, tail |-> EmptySeries]
    ELSE LET vals == daily.values
             start == IF ignore_trailing_zero THEN SkipZeros(vals, Len(vals))
                      ELSE Len(vals)
         IN  IF start < 1 THEN [streak |-> 0, tail |-> EmptySeries]
             ELSE LET streak == CountLosses(vals, start, include_zero)
                  IN  IF streak = 0 THEN [streak |-> 0, tail |-> EmptySeries]
                      ELSE [streak |-> streak,
                            tail |-> Slice(daily, start - streak + 1, start)]

\* _series_to_day_map(s): dict(zip(keys, vals))
series_to_day_map(s) ==
    IF s.values = <<>> THEN << >>
    ELSE [d \in Range(s.index) |->
             s.values[CHOOSE i \in DOMAIN s.index :
                          s.index[i] = d /\ \A j \in DOMAIN s.index :
                                                s.index[j] = d => j <= i]]

\* _tail_days_dict(tail): dict(zip(keys, vals))
tail_days_dict(tail) ==
    IF tail.values = <<>> THEN << >>
    ELSE [d \in Range(tail.index) |->
             tail.values[CHOOSE i \in DOMAIN tail.index :
                             tail.index[i] = d /\ \A j \in DOMAIN tail.index :
                                                      tail.index[j] = d => j <= i]]

\* daily series over the window start_day .. last day, one value per day
DailySeries ==
    {[index |-> [i \in 1..n |-> i - 1], values |-> v] :
        <<n, v>> \in UNION {{<<k, w>> : w \in [1..k -> DailyValues]} : k \in 0..MaxLen}}

InitStreak ==
    /\ pc = "streak"
    /\ daily_pnl \in DailySeries
    /\ streak_out = NoBlock
    /\ tail_out = NoBlock
    /\ OthersIdle("streak")

\* losing_days_mtd: one entry {"consecutive", "days"} from _streak_from_series
LosingDaysMtd ==
    /\ pc = "streak"
    /\ streak_out = NoBlock
    /\ LET r == streak_from_series(daily_pnl)
       IN  streak_out' =
               [consecutive |-> r.streak,
                days |-> IF r.streak # 0 THEN series_to_day_map(r.tail) ELSE << >>]
    /\ UNCHANGED <<pc, daily_pnl, tail_out>>
    /\ OthersUnchanged("streak")

\* compute_consecutive_losses_mtd: one Streak from _current_losing_streak_tail
ComputeConsecutiveLossesMtd ==
    /\ pc = "streak"
    /\ tail_out = NoBlock
    /\ \E include_zero \in BOOLEAN, ignore_trailing_zero \in BOOLEAN :
           LET r == current_losing_streak_tail(daily_pnl, include_zero,
                                               ignore_trailing_zero)
           IN  tail_out' =
                   [include_zero |-> include_zero,
                    ignore_trailing_zero |-> ignore_trailing_zero,
                    consecutive |-> r.streak,
                    days |-> IF r.streak # 0 THEN tail_days_dict(r.tail) ELSE << >>]
    /\ UNCHANGED <<pc, daily_pnl, streak_out>>
    /\ OthersUnchanged("streak")

NextStreak ==
    \/ LosingDaysMtd
    \/ ComputeConsecutiveLossesMtd

SpecStreak == InitStreak /\ [][NextStreak]_vars

--------------------------------------------------------------------------
(* Claim about the losing streak *)

\* position of the last day that is not within eps of zero, 0 when there is none
LastKept(vals) ==
    IF \E i \in DOMAIN vals : Abs(vals[i]) > EPS
    THEN CHOOSE i \in DOMAIN vals :
             /\ Abs(vals[i]) > EPS
             /\ \A j \in DOMAIN vals : Abs(vals[j]) > EPS => j <= i
    ELSE 0

\* positions of the maximal run of losses that ends at the last kept day
LosingRun(vals) ==
    {k \in 1..LastKept(vals) : \A j \in k..LastKept(vals) : vals[j] < -EPS}

\* the streak of a daily series as the claim describes it
ClaimedStreak(daily) ==
    [consecutive |-> Cardinality(LosingRun(daily.values)),
     days |-> [d \in {daily.index[k] : k \in LosingRun(daily.values)} |->
                  daily.values[CHOOSE k \in DOMAIN daily.index : daily.index[k] = d]]]

\* C10: in strict mode with trailing-zero skip both streak functions skip the
\* trailing days with |pnl| <= eps, count the maximal run of days with
\* pnl < -eps that ends at the last day kept, and return exactly those days
\* with their values.
C10_StreakIsTrailingLossRun ==
    /\ streak_out # NoBlock =>
           /\ streak_out.consecutive = ClaimedStreak(daily_pnl).consecutive
           /\ streak_out.days = ClaimedStreak(daily_pnl).days
    /\ (/\ tail_out # NoBlock
        /\ ~tail_out.include_zero
        /\ tail_out.ignore_trailing_zero) =>
           /\ tail_out.consecutive = ClaimedStreak(daily_pnl).consecutive
           /\ tail_out.days = ClaimedStreak(daily_pnl).days

\* [+5, -3, -2, 0] has been given to both functions: count 2, days {-3, -2}
C10_Witness ==
    /\ daily_pnl.values = <<5, -3, -2, 0>>
    /\ streak_out # NoBlock
    /\ streak_out.consecutive = 2
    /\ streak_out.days = [d \in {1, 2} |-> IF d = 1 THEN -3 ELSE -2]
    /\ tail_out # NoBlock
    /\ ~tail_out.include_zero
    /\ tail_out.ignore_trailing_zero
    /\ tail_out.consecutive = 2
    /\ tail_out.days = [d \in {1, 2} |-> IF d = 1 THEN -3 ELSE -2]

--------------------------------------------------------------------------
(* Ledger reads: api_test/io/sql.py *)

\* positions of the rows of one table with time >= :start AND time <= :end
RowsBetween(ev, table, start_dt, end_dt) ==
    SelectSeq([i \in DOMAIN ev |-> i],
              LAMBDA i : /\ ev[i].table = table
                         /\ ev[i].time >= start_dt
                         /\ ev[i].time <= end_dt)

\* positions of the rows of one table with time > :start AND time <= :end
RowsAfter(ev, table, start_dt, end_dt) ==
    SelectSeq([i \in DOMAIN ev |-> i],
              LAMBDA i : /\ ev[i].table = table
                         /\ ev[i].time > start_dt
                         /\ ev[i].time <= end_dt)

\* read_account_trades that leaves out the rows stamped exactly :start
read_account_trades_after_start(ev, start_dt, end_dt) ==
    LET at == RowsAfter(ev, "trades", start_dt, end_dt)
    IN  [j \in DOMAIN at |->
            [pos |-> at[j], time |-> ev[at[j]].time,
             realizedPnl |-> ev[at[j]].amount - ev[at[j]].fee]]

\* read_account_trades: realizedPnl = realizedPnl - commission
read_account_trades(ev, start_dt, end_dt) ==
    LET at == RowsBetween(ev, "trades", start_dt, end_dt)
    IN  [j \in DOMAIN at |->
            [pos |-> at[j], time |-> ev[at[j]].time,
             realizedPnl |-> ev[at[j]].amount - ev[at[j]].fee]]

\* read_account_txn: incomeType, income
read_account_txn(ev, start_dt, end_dt) ==
    LET at == RowsBetween(ev, "transaction", start_dt, end_dt)
    IN  [j \in DOMAIN at |->
            [pos |-> at[j], time |-> ev[at[j]].time,
             incomeType |-> ev[at[j]].type, income |-> ev[at[j]].amount]]

\* read_account_earnings: rewards
read_account_earnings(ev, start_dt, end_dt) ==
    LET at == RowsBetween(ev, "earnings", start_dt, end_dt)
    IN  [j \in DOMAIN at |->
            [pos |-> at[j], time |-> ev[at[j]].time, rewards |-> ev[at[j]].amount]]

\* txn.loc[it.eq(income_type), "income"]
IncomeOf(txn, income_type) ==
    SelectSeq(txn, LAMBDA r : r.incomeType = income_type)

--------------------------------------------------------------------------
(* Opening balance and day-end balances: api_test/utils/sql_balances.py *)

\* the row of a non-empty set of snapshots with the greatest / least ts
LatestRow(rows) == CHOOSE r \in rows : \A q \in rows : q.ts <= r.ts
EarliestRow(rows) == CHOOSE r \in rows : \A q \in rows : r.ts <= q.ts

\* _nearest_balance_before falling back to the newest snapshot
nearest_balance_newest_fallback(rows, start_ts) ==
    IF rows # {} THEN LatestRow(rows) ELSE [ts |-> start_ts, bal |-> 0]

\* _nearest_balance_before: (bal, ts)
nearest_balance_before(rows, start_ts) ==
    LET q1 == {r \in rows : r.ts <= start_ts}
    IN  IF q1 # {} THEN LatestRow(q1)
        ELSE IF rows # {} THEN EarliestRow(rows)
        ELSE [ts |-> start_ts, bal |-> 0]

\* float(nearest_val) + pre_sum over the three reads of [start_str, end_str]
SnapshotPlusLedger(nearest_val, ev, start_str, end_str) ==
    LET trades == read_account_trades(ev, start_str, end_str)
        txn == read_account_txn(ev, start_str, end_str)
        earn == read_account_earnings(ev, start_str, end_str)
    IN  nearest_val
            + SeqSum([j \in DOMAIN trades |-> trades[j].realizedPnl])
            + SeqSum([j \in DOMAIN IncomeOf(txn, "TRANSFER") |->
                         IncomeOf(txn, "TRANSFER")[j].income])
            + SeqSum([j \in DOMAIN IncomeOf(txn, "FUNDING_FEE") |->
                         IncomeOf(txn, "FUNDING_FEE")[j].income])
            + SeqSum([j \in DOMAIN earn |-> earn[j].rewards])

\* _initial_balance_at_start that replays up to and including start_ts
initial_balance_at_start_inclusive_end(rows, ev, start_ts) ==
    LET nearest == nearest_balance_before(rows, start_ts)
    IN  IF nearest.ts > start_ts THEN nearest.bal
        ELSE SnapshotPlusLedger(nearest.bal, ev, nearest.ts, start_ts)

\* _initial_balance_at_start(account, start_ts)
initial_balance_at_start(rows, ev, start_ts) ==
    LET nearest == nearest_balance_before(rows, start_ts)
    IN  IF nearest.ts >= start_ts THEN nearest.bal
        ELSE SnapshotPlusLedger(nearest.bal, ev, nearest.ts, start_ts - 1)

\* the calendar day of a timestamp
DayOf(t) == t \div DayLen

\* the pieces of the post-start ledger, concatenated: dollar_val, transaction_type
LedgerPieces(ev, start_str, end_str) ==
    LET trades == read_account_trades(ev, start_str, end_str)
        txn == read_account_txn(ev, start_str, end_str)
        earn == read_account_earnings(ev, start_str, end_str)
        tr == IncomeOf(txn, "TRANSFER")
        ff == IncomeOf(txn, "FUNDING_FEE")
    IN  [j \in DOMAIN trades |->
            [pos |-> trades[j].pos, time |-> trades[j].time,
             dollar_val |-> trades[j].realizedPnl, transaction_type |-> "realizedPnl"]]
        \o [j \in DOMAIN tr |->
            [pos |-> tr[j].pos, time |-> tr[j].time,
             dollar_val |-> tr[j].income, transaction_type |-> "transfer"]]
        \o [j \in DOMAIN ff |->
            [pos |-> ff[j].pos, time |-> ff[j].time,
             dollar_val |-> ff[j].income, transaction_type |-> "funding_fee"]]
        \o [j \in DOMAIN earn |->
            [pos |-> earn[j].pos, time |-> earn[j].time,
             dollar_val |-> earn[j].rewards, transaction_type |-> "earnings"]]

\* sort_index(): rows by time; rows of one timestamp in the order the store
\* lists them, which is any order (see EventLists)
RECURSIVE SortIndex(_)
SortIndex(rows) ==
    IF rows = {} THEN <<>>
    ELSE LET first == CHOOSE r \in rows : \A q \in rows : r.pos <= q.pos
         IN  <<first>> \o SortIndex(rows \ {first})

\* ledger["running_balance"] = float(initial_value) + ledger["dollar_val"].cumsum()
RunningBalance(ledger, initial_value) ==
    [i \in DOMAIN ledger |->
        [time |-> ledger[i].time,
         transaction_type |-> ledger[i].transaction_type,
         running_balance |->
             initial_value + SeqSum([j \in 1..i |-> ledger[j].dollar_val])]]

\* series.resample("D").last(): day -> last running_balance of the day; a day
\* without a row has no entry (NaN after the reindex)
ResampleLast(ser) ==
    [d \in {DayOf(ser[i].time) : i \in DOMAIN ser} |->
        LET last == CHOOSE i \in DOMAIN ser :
                        /\ DayOf(ser[i].time) = d
                        /\ \A j \in DOMAIN ser : DayOf(ser[j].time) = d => j <= i
        IN  ser[last].running_balance]

\* the daily series when the running balance leaves the transfers out
build_post_start_ledger_daily_end_without_transfers(ev, start_ts, end_ts_excl, initial_value) ==
    LET pieces == LedgerPieces(ev, start_ts, end_ts_excl - 1)
        ledger == SortIndex(Range(pieces))
        no_transfer == SelectSeq(ledger, LAMBDA r : r.transaction_type # "transfer")
    IN  IF pieces = <<>> THEN << >>
        ELSE ResampleLast(RunningBalance(no_transfer, initial_value))

\* _build_post_start_ledger_daily_end_with_transfers: day -> end-of-day balance
build_post_start_ledger_daily_end_with_transfers(ev, start_ts, end_ts_excl, initial_value) ==
    LET pieces == LedgerPieces(ev, start_ts, end_ts_excl - 1)
        ledger == RunningBalance(SortIndex(Range(pieces)), initial_value)
        no_transfer == SelectSeq(ledger, LAMBDA r : r.transaction_type # "transfer")
    IN  IF pieces = <<>> THEN << >>
        ELSE ResampleLast(no_transfer)

\* s.reindex(full_idx) with every missing day set to init_val, at position i
fillna_initial(s, full_idx, initial_value, i) ==
    IF full_idx[i] \in DOMAIN s THEN s[full_idx[i]] ELSE initial_value

\* s.reindex(full_idx); s.iloc[0] = init_val when NaN; s.ffill(), at position i
RECURSIVE Ffill(_, _, _, _)
Ffill(s, full_idx, initial_value, i) ==
    IF full_idx[i] \in DOMAIN s THEN s[full_idx[i]]
    ELSE IF i = 1 THEN initial_value
    ELSE Ffill(s, full_idx, initial_value, i - 1)

\* the column of one account in build_day_end_balances_fixed
day_end_column(ev, start_ts, end_ts_excl, full_idx, initial_value) ==
    LET s == build_post_start_ledger_daily_end_with_transfers(
                 ev, start_ts, end_ts_excl, initial_value)
    IN  IF DOMAIN s = {}
        THEN [index |-> full_idx, values |-> [i \in DOMAIN full_idx |-> initial_value]]
        ELSE [index |-> full_idx,
              values |-> [i \in DOMAIN full_idx |->
                             Ffill(s, full_idx, initial_value, i)]]

--------------------------------------------------------------------------
(* A request for day-end balances of one account *)

\* start_day is day 1, end_day is day MaxDays
StartTs == DayLen
EndTsExcl == (MaxDays + 1) * DayLen
FullIdx == [i \in 1..MaxDays |-> i]

\* the first and the last second of every day, from the day before start_day
\* to the first second after end_day
EventTimes ==
    UNION {{d * DayLen, (d + 1) * DayLen - 1} : d \in 0..MaxDays}
        \cup {EndTsExcl}

\* a trade (realizedPnl 3, commission 1), a transfer, a funding fee, a
\* transaction of another income type, an earning
RowsAt(t) ==
    {[time |-> t, table |-> "trades", type |-> "", amount |-> 3, fee |-> 1],
     [time |-> t, table |-> "transaction", type |-> "TRANSFER", amount |-> 16, fee |-> 0],
     [time |-> t, table |-> "transaction", type |-> "FUNDING_FEE", amount |-> -1, fee |-> 0],
     [time |-> t, table |-> "transaction", type |-> "COMMISSION", amount |-> 64, fee |-> 0],
     [time |-> t, table |-> "earnings", type |-> "", amount |-> 4, fee |-> 0]}

\* the account's rows by time; rows of one timestamp in any order
EventLists ==
    UNION {{ev \in [1..n -> UNION {RowsAt(t) : t \in EventTimes}] :
               \A i \in 1..(n - 1) : ev[i].time <= ev[i + 1].time} :
           n \in 0..MaxEvents}

\* snapshots before start_ts, at start_ts and after it; one row per timestamp
SnapshotTables ==
    SUBSET {[ts |-> t, bal |-> 100 * (t + 1)] :
                t \in {0, DayLen - 1, DayLen, DayLen + 1}}

InitBalances ==
    /\ pc = "balances"
    /\ balance_table \in SnapshotTables
    /\ events \in EventLists
    /\ init_val = 0
    /\ bal = EmptySeries
    /\ OthersIdle("ledger")

\* init_val = _initial_balance_at_start(acc, start_ts)
InitialBalanceAtStart ==
    /\ pc = "balances"
    /\ init_val' = initial_balance_at_start(balance_table, events, StartTs)
    /\ pc' = "resolved"
    /\ UNCHANGED <<balance_table, events, bal>>
    /\ OthersUnchanged("ledger")

\* s = _build_post_start_ledger_daily_end_with_transfers(...), reindexed and filled
BuildDayEndBalancesFixed ==
    /\ pc = "resolved"
    /\ bal' = day_end_column(events, StartTs, EndTsExcl, FullIdx, init_val)
    /\ pc' = "built"
    /\ UNCHANGED <<balance_table, events, init_val>>
    /\ OthersUnchanged("ledger")

NextBalances ==
    \/ InitialBalanceAtStart
    \/ BuildDayEndBalancesFixed

SpecBalances == InitBalances /\ [][NextBalances]_vars

--------------------------------------------------------------------------
(* Claims about the opening balance and the day-end balances *)

Resolved == pc \in {"resolved", "built"}

\* the amount a ledger row stands for: realizedPnl net of commission, income, rewards
Net(e) == e.amount - e.fee

IsTransfer(e) == e.table = "transaction" /\ e.type = "TRANSFER"

\* trades, funding fees, earnings and transfers
IsLedgerEvent(e) ==
    \/ e.table \in {"trades", "earnings"}
    \/ e.table = "transaction" /\ e.type \in {"TRANSFER", "FUNDING_FEE"}

NetOfEvents == [i \in DOMAIN events |-> Net(events[i])]

\* the latest snapshot at or before asOf, else the earliest snapshot
ChosenSnapshot ==
    IF \E r \in balance_table : r.ts <= StartTs
    THEN CHOOSE r \in balance_table :
             /\ r.ts <= StartTs
             /\ \A q \in balance_table : q.ts <= StartTs => q.ts <= r.ts
    ELSE CHOOSE r \in balance_table : \A q \in balance_table : r.ts <= q.ts

\* positions of the ledger events stamped from..to, both ends included
EventsWithin(from, to) ==
    {i \in DOMAIN events :
        IsLedgerEvent(events[i]) /\ from <= events[i].time /\ events[i].time <= to}

\* C4 as stated: with the chosen snapshot strictly before asOf, the opening
\* balance is the snapshot value plus every trade (net), funding fee, earning
\* and transfer stamped strictly after the snapshot and at most asOf - 1s.
C4_BridgeStrictlyAfterSnapshot ==
    (Resolved /\ balance_table # {} /\ ChosenSnapshot.ts < StartTs) =>
        init_val = ChosenSnapshot.bal
                       + SumOver(NetOfEvents,
                                 EventsWithin(ChosenSnapshot.ts + 1, StartTs - 1))

\* C4 amended: with the chosen snapshot strictly before asOf, the opening
\* balance is the snapshot value plus every trade (net), funding fee, earning
\* and transfer stamped at or after the snapshot and at most asOf - 1s; an
\* event stamped exactly at the snapshot is counted.
C4_BridgeFromSnapshot ==
    (Resolved /\ balance_table # {} /\ ChosenSnapshot.ts < StartTs) =>
        init_val = ChosenSnapshot.bal
                       + SumOver(NetOfEvents,
                                 EventsWithin(ChosenSnapshot.ts, StartTs - 1))

\* a snapshot before asOf, an event stamped exactly at it and a transfer have
\* been bridged
C4_Witness ==
    /\ Resolved
    /\ balance_table # {}
    /\ ChosenSnapshot.ts < StartTs
    /\ \E i, j \in EventsWithin(ChosenSnapshot.ts, StartTs - 1) :
           /\ i # j
           /\ events[i].time = ChosenSnapshot.ts
           /\ ~IsTransfer(events[i])
           /\ IsTransfer(events[j])
           /\ init_val = ChosenSnapshot.bal + Net(events[i]) + Net(events[j])

\* C5: when the chosen snapshot is stamped at or after asOf, the opening
\* balance is the snapshot value and no ledger event is applied.
C5_SnapshotAtOrAfterAsOf ==
    (Resolved /\ balance_table # {} /\ ChosenSnapshot.ts >= StartTs) =>
        init_val = ChosenSnapshot.bal

\* a snapshot stamped exactly asOf, with ledger events at asOf and before it
C5_Witness ==
    /\ Resolved
    /\ balance_table # {}
    /\ ChosenSnapshot.ts = StartTs
    /\ \E i \in DOMAIN events :
           IsLedgerEvent(events[i]) /\ events[i].time = StartTs
    /\ \E i \in DOMAIN events :
           IsLedgerEvent(events[i]) /\ events[i].time = StartTs - 1
    /\ init_val = ChosenSnapshot.bal

Built == pc = "built"

\* positions of the ledger events of the window start_day .. end_day
WindowEvents == EventsWithin(StartTs, EndTsExcl - 1)

\* positions of the non-transfer events stamped from start_day to the end of day d
NonTransferUpTo(d) ==
    {i \in WindowEvents : ~IsTransfer(events[i]) /\ DayOf(events[i].time) <= d}

\* the greatest member of a non-empty set of positions
LastOf(S) == CHOOSE i \in S : \A j \in S : j <= i

\* the rows of the store at the positions kept, in their order
Keeping(keep(_)) ==
    LET at == SelectSeq([i \in DOMAIN events |-> i], keep)
    IN  [j \in DOMAIN at |-> events[at[j]]]

\* C3 as stated: the realized value on day d is the opening balance plus the
\* non-transfer events stamped from start_day to the end of day d, and taking
\* the transfers out of the window changes no row.
C3_RealizedExcludesTransfers ==
    Built =>
        /\ \A k \in DOMAIN bal.values :
               bal.values[k] =
                   init_val + SumOver(NetOfEvents, NonTransferUpTo(bal.index[k]))
        /\ bal = day_end_column(
                     Keeping(LAMBDA i : ~(i \in WindowEvents /\ IsTransfer(events[i]))),
                     StartTs, EndTsExcl, FullIdx, init_val)

\* C3 amended: the realized value on day d is the opening balance plus every
\* event of the window, transfers included, that the ledger lists at or before
\* the last non-transfer event stamped up to the end of day d (the opening
\* balance when there is none); taking out the transfers listed after the last
\* non-transfer event of the window changes no row.
C3_RealizedUpToLastNonTransfer ==
    Built =>
        /\ \A k \in DOMAIN bal.values :
               LET upto == NonTransferUpTo(bal.index[k])
               IN  bal.values[k] =
                       IF upto = {} THEN init_val
                       ELSE init_val
                                + SumOver(NetOfEvents,
                                          {i \in WindowEvents : i <= LastOf(upto)})
        /\ LET all == NonTransferUpTo(MaxDays)
               trailing(i) == /\ i \in WindowEvents
                              /\ IsTransfer(events[i])
                              /\ (all # {} => i > LastOf(all))
           IN  bal = day_end_column(Keeping(LAMBDA i : ~trailing(i)),
                                    StartTs, EndTsExcl, FullIdx, init_val)

\* a transfer listed before a trade, funding fee or earning of the window has
\* gone into the day-end balance of that event's day
C3_Witness ==
    /\ Built
    /\ \E i, j \in WindowEvents :
           /\ i < j
           /\ IsTransfer(events[i])
           /\ ~IsTransfer(events[j])
           /\ NonTransferUpTo(MaxDays) = {j}
           /\ \A h \in WindowEvents : h <= j
           /\ bal.values[MaxDays] =
                  init_val + SumOver(NetOfEvents, {h \in WindowEvents : h < j})
                           + Net(events[j])
           /\ bal.values[MaxDays] # init_val + Net(events[j])

--------------------------------------------------------------------------
(* losing_days_mtd: calculations/losing_days.py, db/sql.py *)

\* read_trades(account, start_dt, end_dt): realizedPnl net of commission
read_trades(rows, account, start_dt, end_dt) ==
    {[id |-> r.id, time |-> r.time, realizedPnl |-> r.realizedPnl - r.commission] :
        r \in {q \in rows : q.account = account /\ q.time >= start_dt /\ q.time <= end_dt}}

\* pd.date_range(start_day, end_day, freq="D"); empty when end_day < start_day
date_range(start_day, end_day) ==
    [i \in 1..(end_day - start_day + 1) |-> start_day + i - 1]

\* _daily_trades_net that sums by calendar day, without the shift
daily_trades_net_by_calendar_day(df, start_day, end_day, hour) ==
    LET full_idx == date_range(start_day, end_day)
        pnl == [r \in df |-> r.realizedPnl]
    IN  [index |-> full_idx,
         values |-> [i \in DOMAIN full_idx |->
                        SumOver(pnl, {r \in df : DayOf(r.time) = full_idx[i]})]]

\* _daily_trades_net: the net PnL per shifted day label, over start_day..end_day
daily_trades_net(df, start_day, end_day, hour) ==
    LET full_idx == date_range(start_day, end_day)
        pnl == [r \in df |-> r.realizedPnl]
    IN  [index |-> full_idx,
         values |-> [i \in DOMAIN full_idx |->
                        SumOver(pnl, {r \in df : DayOf(r.time - hour) = full_idx[i]})]]

\* _last_complete_label that takes the running day's predecessor whatever the hour
last_complete_label_before_cut(now, hour) ==
    DayOf(now) - 1

\* _last_complete_label(now, day_start_hour), as a day label
last_complete_label(now, hour) ==
    LET today == DayOf(now)
        today_cut == today * DayLen + hour
    IN  IF now >= today_cut THEN today - 1 ELSE today - 2

\* per[a] = {"consecutive": int(streak), "days": _series_to_day_map(tail) if streak else {}}
StreakEntry(daily) ==
    LET r == streak_from_series(daily)
    IN  [consecutive |-> r.streak,
         days |-> IF r.streak # 0 THEN series_to_day_map(r.tail) ELSE << >>]

\* combined_daily after the loop: combined_daily.add(daily, fill_value=0.0) per account
RECURSIVE CombinedDaily(_, _, _)
CombinedDaily(accounts, dailies, zero) ==
    IF accounts = <<>> THEN zero
    ELSE LET sofar == CombinedDaily(SubSeq(accounts, 1, Len(accounts) - 1), dailies, zero)
             daily == dailies[accounts[Len(accounts)]]
         IN  [index |-> sofar.index,
              values |-> [i \in DOMAIN sofar.values |-> sofar.values[i] + daily.values[i]]]

\* losing_days_mtd whose combined series is the series of the last account
losing_days_mtd_last_account(rows, accounts, hour, start_day, today) ==
    LET last_complete == last_complete_label(today, hour)
        dailies == [a \in Range(accounts) |->
                       daily_trades_net(read_trades(rows, a, start_day * DayLen, today),
                                        start_day, last_complete, hour)]
        full_idx == date_range(start_day, last_complete)
        zero == [index |-> full_idx, values |-> [i \in DOMAIN full_idx |-> 0]]
    IN  IF last_complete < start_day
        THEN [perAccount |-> << >>, combined |-> [consecutive |-> 0, days |-> << >>]]
        ELSE [perAccount |-> [a \in Range(accounts) |-> StreakEntry(dailies[a])],
              combined |-> StreakEntry(IF accounts = <<>> THEN zero
                                       ELSE dailies[accounts[Len(accounts)]])]

\* losing_days_mtd(accounts, day_start_hour, start_day, today)
losing_days_mtd(rows, accounts, hour, start_day, today) ==
    LET last_complete == last_complete_label(today, hour)
        dailies == [a \in Range(accounts) |->
                       daily_trades_net(read_trades(rows, a, start_day * DayLen, today),
                                        start_day, last_complete, hour)]
        full_idx == date_range(start_day, last_complete)
        zero == [index |-> full_idx, values |-> [i \in DOMAIN full_idx |-> 0]]
    IN  IF last_complete < start_day
        THEN [perAccount |-> << >>, combined |-> [consecutive |-> 0, days |-> << >>]]
        ELSE [perAccount |-> [a \in Range(accounts) |-> StreakEntry(dailies[a])],
              combined |-> StreakEntry(CombinedDaily(accounts, dailies, zero))]

--------------------------------------------------------------------------
(* A call of losing_days_mtd; start_day is day 0 *)

\* the subsets of U with at most k members
RECURSIVE SubsetsUpTo(_, _)
SubsetsUpTo(U, k) ==
    IF k = 0 THEN {{}}
    ELSE LET smaller == SubsetsUpTo(U, k - 1)
         IN  smaller \cup {T \cup {x} : T \in smaller, x \in U}

\* the second before the cut and the second of the cut, on each of the days
CutTimes(hour, days) ==
    {t \in UNION {{d * DayLen + hour - 1, d * DayLen + hour} : d \in days} : t >= 0}

\* trades of net -3 and +3 (commission 1) around the cut of every day
TradeRows(hour) ==
    {[id |-> <<a, t, p>>, account |-> a, time |-> t, realizedPnl |-> p, commission |-> 1] :
        a \in Accounts, t \in CutTimes(hour, 0..MaxDays), p \in {-2, 4}}

LosingAccountLists == AccountLists \cup {<<"fund3", "fund2">>, <<"fund2", "fund2">>}

InitLosing ==
    /\ pc = "losing"
    /\ req_accounts \in LosingAccountLists
    /\ cut_hour \in {0, DayLen - 1}
    /\ trade_rows \in SubsetsUpTo(TradeRows(cut_hour), MaxEvents)
    /\ today_ts \in CutTimes(cut_hour, 1..MaxDays)
    /\ losing = NoBlock
    /\ OthersIdle("losing")

\* losing = losing_days_mtd(accs, day_start_hour, start_day, today)
LosingDays ==
    /\ pc = "losing"
    /\ losing' = losing_days_mtd(trade_rows, req_accounts, cut_hour, 0, today_ts)
    /\ pc' = "losing_done"
    /\ UNCHANGED <<req_accounts, trade_rows, cut_hour, today_ts>>
    /\ OthersUnchanged("losing")

NextLosing == LosingDays

SpecLosing == InitLosing /\ [][NextLosing]_vars

--------------------------------------------------------------------------
(* Claim about the combined streak *)

\* the days start_day .. last complete label that the streaks may cover
AllowedDays ==
    {d \in 0..MaxDays :
        d <= (IF today_ts >= DayOf(today_ts) * DayLen + cut_hour
              THEN DayOf(today_ts) - 1 ELSE DayOf(today_ts) - 2)}

\* net PnL of the trades of one requested account that carry day label d
NetOfDay(a, d) ==
    LET mine == {r \in trade_rows :
                    /\ r.account = a
                    /\ r.time <= today_ts
                    /\ DayOf(r.time - cut_hour) = d}
    IN  SumOver([r \in mine |-> r.realizedPnl - r.commission], mine)

\* the per-day sum over the entries of the requested account list
SummedSeries ==
    LET days == [i \in 1..Cardinality(AllowedDays) |-> i - 1]
    IN  [index |-> days,
         values |-> [i \in DOMAIN days |->
                        SeqSum([k \in DOMAIN req_accounts |->
                                   NetOfDay(req_accounts[k], days[i])])]]

\* C11: the combined streak of losing_days_mtd is the streak of the per-day
\* sum of the requested accounts' daily net PnL over the allowed days.
C11_CombinedIsStreakOfSum ==
    losing # NoBlock =>
        /\ losing.combined.consecutive = ClaimedStreak(SummedSeries).consecutive
        /\ losing.combined.days = ClaimedStreak(SummedSeries).days

\* two accounts have been combined and the combined count is the count of
\* neither of them
C11_Witness ==
    /\ losing # NoBlock
    /\ Len(req_accounts) = 2
    /\ req_accounts[1] # req_accounts[2]
    /\ losing.combined.consecutive > 0
    /\ \A a \in DOMAIN losing.perAccount :
           losing.perAccount[a].consecutive # losing.combined.consecutive

--------------------------------------------------------------------------
(* Live unrealized PnL: api/db/redis.py and api_test/io/upnl.py *)

\* what the store holds under "{account}_live"
NoValue == [kind |-> "none"]
\* one open position of a stored JSON array: its unrealizedProfit field is
\* a number, or something pd.to_numeric coerces to NaN
Positions ==
    {[numeric |-> TRUE, v |-> x] : x \in UpnlValues}
        \cup {[numeric |-> FALSE, v |-> 0]}
PositionLists ==
    UNION {[1..n -> Positions] : n \in 0..MaxPositions}
StoredValues ==
    {NoValue,
     [kind |-> "undecodable"],
     [kind |-> "empty"],
     [kind |-> "malformed"],
     [kind |-> "nofield"]}
        \cup {[kind |-> "positions", profits |-> p] : p \in PositionLists}

\* _decode / _decode_redis_payload: the text of a value, None when it has none
decode(value) ==
    IF value.kind \in {"none", "undecodable"} THEN NoValue ELSE value

Coerced(p) == IF p.numeric THEN p.v ELSE 0

\* _sum_unrealized / _extract_upnl_value
sum_unrealized(text_payload) ==
    CASE text_payload.kind \in {"none", "empty"} -> 0
      [] text_payload.kind = "malformed" -> 0
      [] text_payload.kind = "nofield" -> 0
      [] OTHER ->
            IF text_payload.profits = <<>> THEN 0
            ELSE SeqSum([i \in DOMAIN text_payload.profits |->
                            Coerced(text_payload.profits[i])])

\* r.mget(keys): a list of the values of the first reply.len keys, an
\* exception, a reply that is no list, or a client without mget
mget(store, keys, reply) ==
    [i \in 1..reply.len |-> store[keys[i]]]

MgetReplies(accounts) ==
    {[mode |-> "list", len |-> n] : n \in 0..Len(accounts)}
        \cup {[mode |-> m, len |-> 0] : m \in {"raises", "none", "nomget"}}

\* for acc, raw in zip(accounts, raws, strict=False): out[acc] = val
ZipEntries(accounts, raws) ==
    LET k == IF Len(raws) < Len(accounts) THEN Len(raws) ELSE Len(accounts)
        last(a) == CHOOSE i \in 1..k :
                       /\ accounts[i] = a
                       /\ \A j \in 1..k : accounts[j] = a => j <= i
    IN  [a \in {accounts[i] : i \in 1..k} |->
            sum_unrealized(decode(raws[last(a)]))]

\* ... total += val
ZipTotal(accounts, raws) ==
    LET k == IF Len(raws) < Len(accounts) THEN Len(raws) ELSE Len(accounts)
    IN  SeqSum([i \in 1..k |-> sum_unrealized(decode(raws[i]))])

Returned(m) == [raised |-> FALSE, out |-> m]
Raised == [raised |-> TRUE, out |-> << >>]

\* api/db/redis.py read_upnl
read_upnl(accounts, store, reply) ==
    IF accounts = <<>> THEN Returned("total" :> 0)
    ELSE LET raws == IF reply.mode = "list"
                     THEN mget(store, accounts, reply)
                     ELSE <<>>
         IN  Returned(("total" :> ZipTotal(accounts, raws))
                          @@ ZipEntries(accounts, raws))

\* api_test/io/upnl.py read_upnl
read_upnl_io(accounts, store, reply) ==
    CASE reply.mode = "nomget" ->
            Returned(("total" :> 0) @@ [a \in Range(accounts) |-> 0])
      [] reply.mode = "raises" -> Raised
      [] OTHER ->
            LET raws == IF reply.mode = "list"
                        THEN mget(store, accounts, reply)
                        ELSE <<>>
                out == ZipEntries(accounts, raws)
            IN  IF accounts # <<>>
                THEN Returned(("total" :> ZipTotal(accounts, raws)) @@ out)
                ELSE Returned(out)

UpnlAccountLists ==
    AccountLists \cup {<<"fund3", "fund2">>, <<"fund2", "fund2">>}

InitUpnl ==
    /\ pc = "upnl"
    /\ upnl_accounts \in UpnlAccountLists
    /\ live_store \in [Accounts -> StoredValues]
    /\ mget_reply \in MgetReplies(upnl_accounts)
    /\ upnl_out = NoBlock
    /\ OthersIdle("upnl")

\* api/db/redis.py read_upnl(accounts)
ReadUpnl ==
    /\ pc = "upnl"
    /\ pc' = "upnl_done"
    /\ upnl_out' = read_upnl(upnl_accounts, live_store, mget_reply)
    /\ UNCHANGED <<upnl_accounts, live_store, mget_reply>>
    /\ OthersUnchanged("upnl")

\* api_test/io/upnl.py read_upnl(accounts)
ReadUpnlIo ==
    /\ pc = "upnl"
    /\ pc' = "upnl_io_done"
    /\ upnl_out' = read_upnl_io(upnl_accounts, live_store, mget_reply)
    /\ UNCHANGED <<upnl_accounts, live_store, mget_reply>>
    /\ OthersUnchanged("upnl")

NextUpnl == ReadUpnl \/ ReadUpnlIo

SpecUpnl == InitUpnl /\ [][NextUpnl]_vars

UpnlDone == pc \in {"upnl_done", "upnl_io_done"}

\* the per-account entries of a returned map
EntryKeys(m) == DOMAIN m \ {"total"}

\* C12: the map read_upnl returns for a non-empty account list has a
\* "total" entry, and the "total" entry of any returned map is the sum of
\* the per-account entries of that map.
C12_TotalIsSumOfEntries ==
    (UpnlDone /\ ~upnl_out.raised) =>
        /\ upnl_accounts # <<>> => "total" \in DOMAIN upnl_out.out
        /\ "total" \in DOMAIN upnl_out.out =>
              upnl_out.out["total"]
                  = SumOver(upnl_out.out, EntryKeys(upnl_out.out))

\* a requested account whose value cannot be read: the key is missing, the
\* value has no text, an empty text, no JSON or no unrealizedProfit field,
\* or the reply does not reach the account
Affected(a) ==
    \/ live_store[a].kind # "positions"
    \/ mget_reply.mode # "list"
    \/ \A i \in DOMAIN upnl_accounts :
          upnl_accounts[i] = a => mget_reply.len < i

\* C13: read_upnl does not raise whatever the store replies, every
\* requested account has an entry in the returned map, and the entry of an
\* account whose value cannot be read is 0.0.
C13_StoreFaultsDegradeToZero ==
    UpnlDone =>
        /\ ~upnl_out.raised
        /\ \A a \in Range(upnl_accounts) :
              /\ a \in DOMAIN upnl_out.out
              /\ Affected(a) => upnl_out.out[a] = 0

--------------------------------------------------------------------------
(* Live returns block: _live_returns_block and the live formulas *)

\* live_return_realized: (dollars, frac)
live_return_realized(last_value, initial_value, upnl) ==
    [dollars |-> (last_value + upnl) - initial_value,
     frac |-> IF initial_value # 0
              THEN FDiv((last_value + upnl) - initial_value, initial_value)
              ELSE Zero]

\* live_return_margin: (dollars, frac)
live_return_margin(last_realized, initial_value, unrealized_json, upnl) ==
    LET last_margin_live == last_realized + unrealized_json + upnl
        denom == initial_value + unrealized_json
    IN  [dollars |-> last_margin_live - denom,
         frac |-> IF denom # 0 THEN FDiv(last_margin_live - denom, denom)
                  ELSE Zero]

\* sum(m.get(a, 0.0) for a in accounts)
SumGet(m, accounts) == SeqSum([i \in DOMAIN accounts |-> Get(m, accounts[i])])

\* _live_returns_block
live_returns_block(accounts, fixed_df, initmap, upmap, unrealmap) ==
    LET last_realized(a) ==
            IF ~Empty(fixed_df) /\ a \in Range(fixed_df.cols)
            THEN fixed_df.rows[Len(fixed_df.rows)][a]
            ELSE 0
        r(a) == live_return_realized(last_realized(a), Get(initmap, a),
                                     Get(upmap, a))
        m(a) == live_return_margin(last_realized(a), Get(initmap, a),
                                   Get(unrealmap, a), Get(upmap, a))
        init_total == SumGet(initmap, accounts)
        unreal_total == SumGet(unrealmap, accounts)
        last_realized_total == sum_row(fixed_df, accounts)
        up_total == Get(upmap, "total")
        live_total == last_realized_total + up_total
        denom_margin_total == init_total + unreal_total
        keys == Range(accounts) \cup {"total"}
    IN  [realized_usd |->
            [a \in keys |-> IF a = "total" THEN live_total - init_total
                            ELSE r(a).dollars],
         realized_pct |->
            [a \in keys |->
                IF a # "total" THEN r(a).frac
                ELSE IF init_total # 0
                     THEN FDiv(live_total - init_total, init_total)
                     ELSE Zero],
         margin_usd |->
            [a \in keys |->
                IF a = "total" THEN live_total - (init_total + unreal_total)
                ELSE m(a).dollars],
         margin_pct |->
            [a \in keys |->
                IF a # "total" THEN m(a).frac
                ELSE IF denom_margin_total # 0
                     THEN FDiv(live_total - denom_margin_total,
                               denom_margin_total)
                     ELSE Zero],
         init_total |-> init_total,
         last_realized_total |-> last_realized_total,
         live_total |-> live_total,
         unreal_total |-> unreal_total]

\* balances nearest_balance_on_or_before resolves
LiveInitValues == {0, 8}

InitLive ==
    /\ pc = "live"
    /\ live_accs \in AccountLists
    /\ \E n \in 1..MaxDays : live_fixed \in FramesOver(live_accs, n)
    /\ live_init \in [Range(live_accs) -> LiveInitValues]
    /\ live_up \in UpnlMaps(live_accs)
    /\ live_unreal \in UnrealMaps
    /\ live_block = NoBlock
    /\ OthersIdle("live")

\* _live_returns_block(accs, fixed, init_map, up_map, unreal_map)
LiveReturnsBlock ==
    /\ pc = "live"
    /\ pc' = "live_done"
    /\ live_block' = live_returns_block(live_accs, live_fixed, live_init,
                                        live_up, live_unreal)
    /\ UNCHANGED <<live_accs, live_fixed, live_init, live_up, live_unreal>>
    /\ OthersUnchanged("live")

NextLive == LiveReturnsBlock

SpecLive == InitLive /\ [][NextLive]_vars

\* the sum over the requested accounts of a per-account block
SumOfAccounts(block) == SeqSum([i \in DOMAIN live_accs |-> block[live_accs[i]]])

RealizedTotalIsSum ==
    live_block.realized_usd["total"] = SumOfAccounts(live_block.realized_usd)

MarginTotalIsSum ==
    live_block.margin_usd["total"] = SumOfAccounts(live_block.margin_usd)

\* C14: in the live returns block the total dollar return of the realized
\* scope and of the margin scope is the sum over the requested accounts of
\* the per-account dollar returns of that scope.
C14_LiveTotalIsSumOfAccounts ==
    pc = "live_done" => RealizedTotalIsSum /\ MarginTotalIsSum

--------------------------------------------------------------------------
(* Strategy groups: _group_accounts_by_strategy and _strategy_metrics *)

\* the "strategy" field of an accounts.json row; "" stands for a row whose
\* field is missing, null or empty
StrategyNames == {"alpha", "Beta", "None", ""}

\* str.lower() on the names above
Lower(s) ==
    CASE s = "Beta" -> "beta"
      [] s = "None" -> "none"
      [] OTHER -> s

\* _load_accounts_index(): rows of accounts.json by lowercased redisName
AccountIndexes ==
    UNION {[S -> [strategy : StrategyNames]] : S \in SUBSET Accounts}

\* groups.setdefault(strategy, []).append(a)
SetDefaultAppend(groups, strategy, a) ==
    IF strategy \in DOMAIN groups
    THEN [groups EXCEPT ![strategy] = Append(@, a)]
    ELSE (strategy :> <<a>>) @@ groups

\* (meta.get("strategy") if meta else None) or "None"
StrategyOf(index, a) ==
    IF Lower(a) \in DOMAIN index /\ index[Lower(a)].strategy # ""
    THEN index[Lower(a)].strategy
    ELSE "None"

\* _group_accounts_by_strategy with the include_none test dropped
RECURSIVE group_accounts_by_strategy_keep_none(_, _, _, _)
group_accounts_by_strategy_keep_none(accounts, index, include_none, groups) ==
    IF accounts = <<>> THEN groups
    ELSE group_accounts_by_strategy_keep_none(
             Tail(accounts), index, include_none,
             SetDefaultAppend(groups, StrategyOf(index, Head(accounts)),
                              Head(accounts)))

\* _group_accounts_by_strategy: the loop over accs, from the groups so far
RECURSIVE group_accounts_by_strategy(_, _, _, _)
group_accounts_by_strategy(accounts, index, include_none, groups) ==
    IF accounts = <<>> THEN groups
    ELSE LET a == Head(accounts)
             strategy == StrategyOf(index, a)
         IN  IF ~include_none /\ Lower(strategy) = "none"
             THEN group_accounts_by_strategy(Tail(accounts), index,
                                             include_none, groups)
             ELSE group_accounts_by_strategy(
                      Tail(accounts), index, include_none,
                      SetDefaultAppend(groups, strategy, a))

\* df.loc[:, df.columns.intersection(subset)]
SubFrame(df, subset) ==
    LET keep == SelectSeq(df.cols, LAMBDA c : c \in Range(subset))
    IN  [cols |-> keep,
         index |-> df.index,
         rows |-> [i \in DOMAIN df.rows |->
                     [c \in Range(keep) |-> df.rows[i][c]]]]

\* _subset_up(up_full, subset)
subset_up(up_full, subset) ==
    LET sub == [a \in Range(subset) |-> Get(up_full, a)]
    IN  ("total" :> SumOver(sub, DOMAIN sub)) @@ sub

\* float(m.get("total", 0.0)) on a map of quotients
GetTotal(m) == IF "total" \in DOMAIN m THEN m["total"] ELSE Zero

\* _strategy_metrics(subset)
strategy_metrics(subset, fixed_df, margin_df, upnl_map) ==
    IF subset = <<>>
    THEN [dd_realized |-> Zero, dd_margin |-> Zero,
          ret_realized |-> Zero, ret_margin |-> Zero]
    ELSE
    LET fixed_sub == SubFrame(fixed_df, subset)
        margin_sub == SubFrame(margin_df, subset)
        fixed_total_pure_sub ==
            IF ~Empty(fixed_sub) THEN AssignTotal(fixed_sub, subset)
            ELSE fixed_sub
        up_sub == subset_up(upnl_map, subset)
        fixed_with_up_sub == inject_upnl_last_row(fixed_sub, up_sub, subset).out
        fixed_total_with_up_sub ==
            IF ~Empty(fixed_with_up_sub)
            THEN AssignTotal(fixed_with_up_sub, subset)
            ELSE fixed_with_up_sub
        margin_total_sub ==
            IF ~Empty(margin_sub) THEN AssignTotal(margin_sub, subset)
            ELSE margin_sub
        levels_for_ret_realized ==
            IF ~Empty(fixed_total_with_up_sub) THEN fixed_total_with_up_sub
            ELSE fixed_total_pure_sub
        ret_realized_map ==
            IF ~Empty(levels_for_ret_realized)
            THEN mtd_return(levels_for_ret_realized) ELSE << >>
        ret_margin_map ==
            IF ~Empty(margin_total_sub) THEN mtd_return(margin_total_sub)
            ELSE << >>
        mdd_realized_map ==
            IF ~Empty(levels_for_ret_realized)
            THEN mtd_max_dd_from_levels(levels_for_ret_realized) ELSE << >>
        mdd_margin_map ==
            IF ~Empty(margin_total_sub)
            THEN mtd_max_dd_from_levels(margin_total_sub) ELSE << >>
    IN  [dd_realized |-> GetTotal(mdd_realized_map),
         dd_margin |-> GetTotal(mdd_margin_map),
         ret_realized |-> GetTotal(ret_realized_map),
         ret_margin |-> GetTotal(ret_margin_map)]

\* performance_by_strategy[strat] for every group
performance_by_strategy_of(groups, fixed_df, margin_df, upnl_map) ==
    [strat \in DOMAIN groups |->
        LET r == strategy_metrics(groups[strat], fixed_df, margin_df, upnl_map)
        IN  [accounts |-> groups[strat],
             drawdown |-> [realized |-> r.dd_realized, margin |-> r.dd_margin],
             return |-> [realized |-> r.ret_realized, margin |-> r.ret_margin]]]

GroupLevels == {4, 16}

\* the realized frames of a window of n days over the columns cols
GroupFrames(cols, n) ==
    {[cols |-> cols, index |-> [i \in 1..n |-> i - 1], rows |-> r] :
        r \in [1..n -> [Range(cols) -> GroupLevels]]}

InitGroups ==
    /\ pc = "groups"
    /\ grp_accs \in AccountLists
    /\ \E n \in 1..MaxDays : grp_fixed \in GroupFrames(grp_accs, n)
    /\ grp_unreal \in UnrealMaps
    /\ grp_up \in UpnlMaps(grp_accs)
    /\ accounts_index \in AccountIndexes
    /\ strategy_groups = NoBlock
    /\ performance_by_strategy = NoBlock
    /\ OthersIdle("groups")

\* margin = build_margin_series(fixed, unreal_map, up_map, accs)
GroupMargin == build_margin_series(grp_fixed, grp_unreal, grp_up, grp_accs).out

\* build_metrics_payload, "Performance by strategy"
PerformanceByStrategy ==
    /\ pc = "groups"
    /\ pc' = "grouped"
    /\ LET groups == group_accounts_by_strategy(grp_accs, accounts_index,
                                                FALSE, << >>)
       IN  /\ strategy_groups' = groups
           /\ performance_by_strategy' =
                  performance_by_strategy_of(groups, grp_fixed, GroupMargin,
                                             grp_up)
    /\ UNCHANGED <<grp_accs, grp_fixed, grp_unreal, grp_up, accounts_index>>
    /\ OthersUnchanged("groups")

NextGroups == PerformanceByStrategy

SpecGroups == InitGroups /\ [][NextGroups]_vars

\* the groups a requested account belongs to
GroupsOf(a) == {s \in DOMAIN strategy_groups : a \in Range(strategy_groups[s])}

\* the account has a strategy in the metadata, other than "none"
HasStrategy(a) ==
    /\ a \in DOMAIN accounts_index
    /\ Lower(accounts_index[a].strategy) \notin {"", "none"}

\* the summed series of a group over a frame, as a frame of one column;
\* extra is added to the last row
TotalSeries(df, group, extra) ==
    [cols |-> <<"total">>,
     index |-> df.index,
     rows |-> [i \in DOMAIN df.rows |->
                 [c \in {"total"} |->
                     SumOver(df.rows[i], Range(group))
                         + (IF i = Len(df.rows) THEN extra ELSE 0)]]]

\* return and drawdown of every group are those of the group's summed
\* series: realized levels with the group's live uPnL on the last row, and
\* margin levels
MetricsFromOwnTotal ==
    \A s \in DOMAIN strategy_groups :
        LET g == strategy_groups[s]
            realized == TotalSeries(grp_fixed, g,
                            SumOver([a \in Range(g) |-> Get(grp_up, a)], Range(g)))
            margin_levels == TotalSeries(GroupMargin, g, 0)
            p == performance_by_strategy[s]
        IN  /\ p.accounts = g
            /\ p.return.realized = mtd_return(realized)["total"]
            /\ p.return.margin = mtd_return(margin_levels)["total"]
            /\ p.drawdown.realized = mtd_max_dd_from_levels(realized)["total"]
            /\ p.drawdown.margin = mtd_max_dd_from_levels(margin_levels)["total"]

\* C15 as stated: every requested account belongs to exactly one strategy
\* group, no group is empty, and each group's return and drawdown come from
\* the group's own summed total series.
C15_GroupsPartitionRequest ==
    pc = "grouped" =>
        /\ \A a \in Range(grp_accs) : Cardinality(GroupsOf(a)) = 1
        /\ \A s \in DOMAIN strategy_groups : strategy_groups[s] # <<>>
        /\ MetricsFromOwnTotal

\* C15: the strategy groups partition the requested accounts that have a
\* strategy other than "none" in the account metadata: each of them belongs
\* to exactly one group, a requested account without such a strategy belongs
\* to no group, every group holds requested accounts only and is not empty,
\* and each group's return and drawdown come from the group's own summed
\* total series.
C15_GroupsPartitionStrategyAccounts ==
    pc = "grouped" =>
        /\ \A a \in Range(grp_accs) :
              Cardinality(GroupsOf(a)) = IF HasStrategy(a) THEN 1 ELSE 0
        /\ \A s \in DOMAIN strategy_groups :
              /\ strategy_groups[s] # <<>>
              /\ Range(strategy_groups[s]) \subseteq Range(grp_accs)
        /\ MetricsFromOwnTotal

\* one requested account is grouped, the other has no strategy and is left
\* out, and the group has a non-zero realized return
C15_Witness ==
    /\ pc = "grouped"
    /\ \E a, b \in Range(grp_accs) :
          /\ HasStrategy(a)
          /\ ~HasStrategy(b)
          /\ \E s \in DOMAIN strategy_groups :
                /\ strategy_groups[s] = <<a>>
                /\ performance_by_strategy[s].return.realized # Zero

--------------------------------------------------------------------------
(* build_metrics_payload, step by step *)

\* identifiers as a caller may pass them
RawIdentifiers == {"fund2", " Fund3 ", " "}

\* a.strip().lower()
StripLower(a) ==
    CASE a = " Fund3 " -> "fund3"
      [] a = " " -> ""
      [] OTHER -> a

\* [a.strip().lower() for a in accounts if a.strip()]
RECURSIVE NormalizeAccounts(_)
NormalizeAccounts(accounts) ==
    IF accounts = <<>> THEN <<>>
    ELSE IF StripLower(Head(accounts)) = ""
         THEN NormalizeAccounts(Tail(accounts))
         ELSE <<StripLower(Head(accounts))>> \o NormalizeAccounts(Tail(accounts))

\* the non-empty lists of identifiers of a request
RawAccountLists ==
    {<<a>> : a \in RawIdentifiers}
        \cup {l \in RawIdentifiers \X RawIdentifiers : l[1] # l[2]}

\* def losing_days_mtd(accounts, day_start_hour, start_day, today)
LosingDaysParameters == <<"accounts", "day_start_hour", "start_day", "today">>

\* losing_days_mtd(accs, day_start_hour=8)
LosingDaysCall == [positional |-> <<"accs">>, keywords |-> {"day_start_hour"}]

\* the parameters without default that a call leaves unbound
MissingArguments(parameters, call) ==
    {parameters[i] : i \in (Len(call.positional) + 1)..Len(parameters)}
        \ call.keywords

\* the top-level keys of the payload
PayloadKeys ==
    {"meta", "accounts", "initialBalances", "unrealizedJson",
     "initialBalancesWithUnrealized", "equity", "returns", "drawdown",
     "losingDays", "symbolPnlMTD", "uPnl", "performanceByStrategy",
     "regular_returns", "all_time_max_current_dd"}

InitPayload ==
    /\ pc = "payload"
    /\ pay_accounts \in RawAccountLists
    /\ pay_accs = <<>>
    /\ \E n \in 1..MaxDays :
          pay_fixed \in GroupFrames(NormalizeAccounts(pay_accounts), n)
    /\ pay_init \in [Range(NormalizeAccounts(pay_accounts)) -> LiveInitValues]
    /\ pay_up \in UpnlMaps(NormalizeAccounts(pay_accounts))
    /\ pay_unreal \in UnrealMaps
    /\ pay_margin = EmptyFrame
    /\ pay_live = NoBlock
    /\ pay_dd = NoBlock
    /\ pay_out = NoBlock
    /\ OthersIdle("payload")

\* accs, init_map, fixed, up_map, unreal_map, margin
PayloadEquity ==
    /\ pc = "payload"
    /\ pc' = "payload_equity"
    /\ pay_accs' = NormalizeAccounts(pay_accounts)
    /\ LET r == build_margin_series(pay_fixed, pay_unreal, pay_up, pay_accs')
       IN  /\ pay_fixed' = r.fixed_balances
           /\ pay_margin' = r.out
    /\ UNCHANGED <<pay_accounts, pay_init, pay_up, pay_unreal, pay_live,
                   pay_dd, pay_out>>
    /\ OthersUnchanged("payload")

\* live returns and drawdowns
PayloadMetrics ==
    /\ pc = "payload_equity"
    /\ pc' = "payload_metrics"
    /\ pay_live' = live_returns_block(pay_accs, pay_fixed, pay_init, pay_up,
                                      pay_unreal)
    /\ pay_dd' = current_dd_block(pay_accs, pay_fixed, pay_margin, pay_up)
    /\ UNCHANGED <<pay_accounts, pay_accs, pay_fixed, pay_init, pay_up,
                   pay_unreal, pay_margin, pay_out>>
    /\ OthersUnchanged("payload")

\* losing = losing_days_mtd(accs, day_start_hour=8): the call binds its
\* arguments before the body runs, and raises TypeError when a parameter
\* stays unbound
PayloadLosingDays ==
    /\ pc = "payload_metrics"
    /\ IF MissingArguments(LosingDaysParameters, LosingDaysCall) # {}
       THEN /\ pc' = "payload_end"
            /\ pay_out' = [raised |-> TRUE, error |-> "TypeError",
                           payload |-> << >>]
       ELSE /\ pc' = "payload_losing"
            /\ pay_out' = pay_out
    /\ UNCHANGED <<pay_accounts, pay_accs, pay_fixed, pay_init, pay_up,
                   pay_unreal, pay_margin, pay_live, pay_dd>>
    /\ OthersUnchanged("payload")

NextPayload == PayloadEquity \/ PayloadMetrics \/ PayloadLosingDays

SpecPayload == InitPayload /\ [][NextPayload]_vars

\* C16: when build_metrics_payload stops on a non-empty list of
\* identifiers, it has raised nothing and has returned a payload holding
\* every top-level key, losingDays included.
C16_PayloadComplete ==
    pc = "payload_end" =>
        /\ ~pay_out.raised
        /\ PayloadKeys \subseteq DOMAIN pay_out.payload

--------------------------------------------------------------------------
(* The metrics endpoints and their accounts parameter *)

\* a text is a sequence of characters
Chars == {",", " ", "a", "A"}
Texts == UNION {[1..n -> Chars] : n \in 0..MaxParam}

\* the accounts parameter of the query string: absent, or one text
Missing == [present |-> FALSE, text |-> <<>>]
Given(t) == [present |-> TRUE, text |-> t]
QueryParams == {Missing} \cup {Given(t) : t \in Texts}

\* str.strip()
RECURSIVE LStrip(_)
LStrip(t) == IF t # <<>> /\ Head(t) = " " THEN LStrip(Tail(t)) ELSE t
RECURSIVE RStrip(_)
RStrip(t) ==
    IF t # <<>> /\ t[Len(t)] = " " THEN RStrip(SubSeq(t, 1, Len(t) - 1)) ELSE t
StripText(t) == RStrip(LStrip(t))

\* str.lower()
LowerText(t) == [i \in DOMAIN t |-> IF t[i] = "A" THEN "a" ELSE t[i]]

\* str.split(",")
RECURSIVE SplitCommas(_, _)
SplitCommas(t, piece) ==
    IF t = <<>> THEN <<piece>>
    ELSE IF Head(t) = "," THEN <<piece>> \o SplitCommas(Tail(t), <<>>)
    ELSE SplitCommas(Tail(t), Append(piece, Head(t)))
Split(t) == SplitCommas(t, <<>>)

NoCall == [called |-> FALSE, accounts |-> <<>>]
Call(accounts) == [called |-> TRUE, accounts |-> accounts]

\* raise HTTPException(status_code=..., detail=...)
HttpError(status, detail) ==
    [status |-> status, detail |-> detail, builder |-> NoCall,
     defaulted |-> FALSE]

\* the answer of a handler that went on to compute for the accounts
Computed(status, accounts, defaulted) ==
    [status |-> status, detail |-> "", builder |-> Call(accounts),
     defaulted |-> defaulted]

\* api_test/routers/metrics/performance.py metrics_performance
metrics_performance(param) ==
    IF ~param.present \/ param.text = <<>>
    THEN HttpError(400, "Missing 'accounts' parameter")
    ELSE LET pieces == Split(param.text)
             kept == SelectSeq(pieces, LAMBDA a : StripText(a) # <<>>)
             accounts == [i \in DOMAIN kept |-> LowerText(StripText(kept[i]))]
         IN  IF accounts = <<>>
             THEN HttpError(400, "No valid accounts provided")
             ELSE Computed(200, accounts, FALSE)

\* api/routers/performance.py get_performance_metric: the parameter is a
\* list[str] with min_length=1, one item per occurrence in the query
\* string; the framework answers 422 when the list is too short, and 500
\* when build_metrics_payload raises
get_performance_metric(param) ==
    LET accounts == IF param.present THEN <<param.text>> ELSE <<>>
    IN  IF Len(accounts) < 1
        THEN HttpError(422, "validation error")
        ELSE Computed(IF MissingArguments(LosingDaysParameters,
                                          LosingDaysCall) # {}
                      THEN 500 ELSE 200,
                      accounts, FALSE)

\* algoforce-analytics/api/index.py metrics_bulk_mtd, up to the accounts
\* it computes for: defaults are load_accounts(monitored_only=True), equity
\* the accounts load_day_open_balances finds a month-open balance for
metrics_bulk_mtd(param, defaults, equity) ==
    LET given == param.present /\ param.text # <<>>
        override == IF given
                    THEN LET pieces == Split(param.text)
                         IN  [i \in DOMAIN pieces |-> StripText(pieces[i])]
                    ELSE <<>>
        use_override == given /\ override # <<>>
        req_accs == IF use_override THEN override ELSE defaults
        accounts == SelectSeq(req_accs, LAMBDA a : a \in equity)
    IN  IF accounts = <<>>
        THEN [status |-> 200,
              detail |-> "No accounts had month-open equity",
              builder |-> NoCall, defaulted |-> ~use_override]
        ELSE Computed(200, accounts, ~use_override)

Endpoints == {"metrics_performance", "get_performance_metric",
              "metrics_bulk_mtd"}

\* monitored accounts of accounts.json
MonitoredLists == {<<>>, << <<"a">> >>}

InitEndpoints ==
    /\ pc = "request"
    /\ endpoint \in Endpoints
    /\ accounts_param \in QueryParams
    /\ monitored \in MonitoredLists
    /\ open_equity \in SUBSET {<<"a">>}
    /\ response = NoBlock
    /\ OthersIdle("endpoints")

\* GET /metrics/performance
MetricsPerformance ==
    /\ pc = "request"
    /\ endpoint = "metrics_performance"
    /\ pc' = "answered"
    /\ response' = metrics_performance(accounts_param)
    /\ UNCHANGED <<endpoint, accounts_param, monitored, open_equity>>
    /\ OthersUnchanged("endpoints")

\* GET /performance_metrics
GetPerformanceMetric ==
    /\ pc = "request"
    /\ endpoint = "get_performance_metric"
    /\ pc' = "answered"
    /\ response' = get_performance_metric(accounts_param)
    /\ UNCHANGED <<endpoint, accounts_param, monitored, open_equity>>
    /\ OthersUnchanged("endpoints")

\* GET /api/metrics/bulk
MetricsBulkMtd ==
    /\ pc = "request"
    /\ endpoint = "metrics_bulk_mtd"
    /\ pc' = "answered"
    /\ response' = metrics_bulk_mtd(accounts_param, monitored, open_equity)
    /\ UNCHANGED <<endpoint, accounts_param, monitored, open_equity>>
    /\ OthersUnchanged("endpoints")

NextEndpoints == MetricsPerformance \/ GetPerformanceMetric \/ MetricsBulkMtd

SpecEndpoints == InitEndpoints /\ [][NextEndpoints]_vars

\* the parameter is missing, empty, or made only of commas and whitespace
Blank(param) ==
    \/ ~param.present
    \/ \A i \in DOMAIN param.text : param.text[i] \in {",", " "}

\* C17: a request whose accounts parameter is missing, empty or made only
\* of commas and whitespace is answered by every metrics endpoint with a
\* 4xx status and a detail text, without a default account list and
\* without a payload being computed for it.
C17_BlankAccountsRejected ==
    (pc = "answered" /\ Blank(accounts_param)) =>
        /\ response.status \in 400..499
        /\ response.detail # ""
        /\ ~response.defaulted
        /\ ~response.builder.called

--------------------------------------------------------------------------
(* Realized equity of one account, from the opening balance to the metrics *)

\* nearest_balance_on_or_before: (bal, ts)
nearest_balance_on_or_before(rows, start_ts) ==
    LET q1 == {r \in rows : r.ts <= start_ts}
    IN  IF q1 # {} THEN LatestRow(q1)
        ELSE IF rows # {} THEN EarliestRow(rows)
        ELSE [ts |-> start_ts, bal |-> 0]

\* db/sql.py read_trades, read_transactions, read_earnings on the rows of
\* one account: (time, amount) of the rows with time >= :start AND time <= :end
sql_read_trades(ev, start_dt, end_dt) ==
    LET at == RowsBetween(ev, "trades", start_dt, end_dt)
    IN  [j \in DOMAIN at |->
            [time |-> ev[at[j]].time,
             realizedPnl |-> ev[at[j]].amount - ev[at[j]].fee]]

read_transactions(ev, start_dt, end_dt) ==
    LET at == RowsBetween(ev, "transaction", start_dt, end_dt)
    IN  [j \in DOMAIN at |->
            [time |-> ev[at[j]].time, incomeType |-> ev[at[j]].type,
             income |-> ev[at[j]].amount]]

read_earnings(ev, start_dt, end_dt) ==
    LET at == RowsBetween(ev, "earnings", start_dt, end_dt)
    IN  [j \in DOMAIN at |->
            [time |-> ev[at[j]].time, rewards |-> ev[at[j]].amount]]

\* _daily_pnl: trades (net), funding fees and earnings summed per day, from
\* the first day with a row to the last; transfers are left out
equity_daily_pnl(trades, txn, earn) ==
    LET funding == IncomeOf(txn, "FUNDING_FEE")
        parts == [j \in DOMAIN trades |->
                     [time |-> trades[j].time, v |-> trades[j].realizedPnl]]
                 \o [j \in DOMAIN funding |->
                        [time |-> funding[j].time, v |-> funding[j].income]]
                 \o [j \in DOMAIN earn |->
                        [time |-> earn[j].time, v |-> earn[j].rewards]]
        days == {DayOf(parts[j].time) : j \in DOMAIN parts}
        first == CHOOSE d \in days : \A e \in days : d <= e
        last == CHOOSE d \in days : \A e \in days : e <= d
    IN  IF parts = <<>> THEN << >>
        ELSE [d \in first..last |->
                 SeqSum([j \in DOMAIN parts |->
                            IF DayOf(parts[j].time) = d THEN parts[j].v ELSE 0])]

\* cumulative deltas that open each day: the sum of the days before it
fixed_delta_column_at_day_open(ev, start_ts, end_ts, idx) ==
    LET daily == equity_daily_pnl(sql_read_trades(ev, start_ts, end_ts),
                                  read_transactions(ev, start_ts, end_ts),
                                  read_earnings(ev, start_ts, end_ts))
        filled == [i \in DOMAIN idx |->
                      IF idx[i] \in DOMAIN daily THEN daily[idx[i]] ELSE 0]
    IN  [index |-> idx,
         values |-> [i \in DOMAIN idx |-> SeqSum(SubSeq(filled, 1, i - 1))]]

\* the column of one account in build_fixed_balances: cumulative deltas
fixed_delta_column(ev, start_ts, end_ts, idx) ==
    LET daily == equity_daily_pnl(sql_read_trades(ev, start_ts, end_ts),
                                  read_transactions(ev, start_ts, end_ts),
                                  read_earnings(ev, start_ts, end_ts))
        filled == [i \in DOMAIN idx |->
                      IF idx[i] \in DOMAIN daily THEN daily[idx[i]] ELSE 0]
    IN  [index |-> idx,
         values |-> [i \in DOMAIN idx |-> SeqSum(SubSeq(filled, 1, i))]]

\* _offset_fixed_with_initial on one column
offset_fixed_with_initial(fixed_delta, initial) ==
    [index |-> fixed_delta.index,
     values |-> [i \in DOMAIN fixed_delta.values |->
                    fixed_delta.values[i] + initial]]

\* a series as the frame of one account
FrameOfAccount(a, s) ==
    [cols |-> <<a>>, index |-> s.index,
     rows |-> [i \in DOMAIN s.values |-> [c \in {a} |-> s.values[i]]]]

\* snapshots before start_day and after it
RealizedTables ==
    SUBSET {[ts |-> t, bal |-> 100 * (t + 1)] : t \in {0, DayLen + 1}}

InitRealized ==
    /\ pc = "realized"
    /\ real_path \in {"api", "api_test"}
    /\ real_table \in RealizedTables
    /\ real_events \in EventLists
    /\ real_init = 0
    /\ real_levels = EmptySeries
    /\ real_ret = NoBlock
    /\ real_dd = NoBlock
    /\ OthersIdle("realized")

\* build_metrics_payload: bal, _ts = nearest_balance_on_or_before(a, start_day)
OpeningApi ==
    /\ pc = "realized"
    /\ real_path = "api"
    /\ pc' = "opened"
    /\ real_init' = nearest_balance_on_or_before(real_table, StartTs).bal
    /\ UNCHANGED <<real_path, real_table, real_events, real_levels, real_ret,
                   real_dd>>
    /\ OthersUnchanged("realized")

\* build_day_end_balances_fixed: init_val = _initial_balance_at_start(acc, start_ts)
OpeningApiTest ==
    /\ pc = "realized"
    /\ real_path = "api_test"
    /\ pc' = "opened"
    /\ real_init' = initial_balance_at_start(real_table, real_events, StartTs)
    /\ UNCHANGED <<real_path, real_table, real_events, real_levels, real_ret,
                   real_dd>>
    /\ OthersUnchanged("realized")

\* build_metrics_payload: build_fixed_balances, _offset_fixed_with_initial
FixedApi ==
    /\ pc = "opened"
    /\ real_path = "api"
    /\ pc' = "levelled"
    /\ real_levels' =
           offset_fixed_with_initial(
               fixed_delta_column(real_events, StartTs, EndTsExcl - 1, FullIdx),
               real_init)
    /\ UNCHANGED <<real_path, real_table, real_events, real_init, real_ret,
                   real_dd>>
    /\ OthersUnchanged("realized")

\* build_day_end_balances_fixed: the column of the account
FixedApiTest ==
    /\ pc = "opened"
    /\ real_path = "api_test"
    /\ pc' = "levelled"
    /\ real_levels' = day_end_column(real_events, StartTs, EndTsExcl, FullIdx,
                                     real_init)
    /\ UNCHANGED <<real_path, real_table, real_events, real_init, real_ret,
                   real_dd>>
    /\ OthersUnchanged("realized")

\* mtd_return and mtd_max_dd_from_levels on the realized levels
RealizedMetrics ==
    /\ pc = "levelled"
    /\ pc' = "measured"
    /\ real_ret' = mtd_return(FrameOfAccount("fund2", real_levels))["fund2"]
    /\ real_dd' =
           mtd_max_dd_from_levels(FrameOfAccount("fund2", real_levels))["fund2"]
    /\ UNCHANGED <<real_path, real_table, real_events, real_init, real_levels>>
    /\ OthersUnchanged("realized")

NextRealized ==
    \/ OpeningApi
    \/ OpeningApiTest
    \/ FixedApi
    \/ FixedApiTest
    \/ RealizedMetrics

SpecRealized == InitRealized /\ [][NextRealized]_vars

\* no row of the ledger is stamped inside the window
NoWindowRows ==
    \A i \in DOMAIN real_events :
        real_events[i].time < StartTs \/ real_events[i].time >= EndTsExcl

\* C18: for an account with no ledger event in the window and opening
\* balance B, 0.0 without a snapshot included, the realized series is B on
\* every day of the window, the MTD return is 0.0 and the max drawdown 0.0.
C18_FlatWithoutEvents ==
    (pc = "measured" /\ NoWindowRows) =>
        /\ \A i \in DOMAIN real_levels.values : real_levels.values[i] = real_init
        /\ real_ret = Zero
        /\ real_dd = Zero

\* the latest snapshot at or before start_day
SnapshotAtStart ==
    CHOOSE r \in real_table :
        /\ r.ts <= StartTs
        /\ \A q \in real_table : q.ts <= StartTs => q.ts <= r.ts

\* the net amount of the ledger events stamped from..to, both ends included
LedgerBetween(from, to) ==
    SeqSum([i \in DOMAIN real_events |->
               IF /\ IsLedgerEvent(real_events[i])
                  /\ from <= real_events[i].time
                  /\ real_events[i].time <= to
               THEN Net(real_events[i]) ELSE 0])

\* C20: the opening balance build_metrics_payload adds to the realized
\* deltas and reports as initialBalances[a] is the latest snapshot at or
\* before startDay plus every ledger event between that snapshot and
\* startDay, whichever of the two ends of the interval are counted.
C20_OpeningIsSnapshotPlusLedger ==
    (/\ pc \in {"opened", "levelled", "measured"}
     /\ real_path = "api"
     /\ \E r \in real_table : r.ts <= StartTs) =>
        \E from \in {SnapshotAtStart.ts, SnapshotAtStart.ts + 1},
           to \in {StartTs - 1, StartTs} :
            real_init = SnapshotAtStart.bal + LedgerBetween(from, to)

--------------------------------------------------------------------------
(* Requests in flight and the objects they share *)

NoEntry == [filled |-> FALSE]
Entry(key, value) == [filled |-> TRUE, key |-> key, value |-> value]

\* @lru_cache(maxsize=1) with every call answered from a filled cache,
\* whatever its arguments
lru_cache_unkeyed(cache, key, value) ==
    IF cache.filled
    THEN [cache |-> cache, result |-> cache.value]
    ELSE [cache |-> Entry(key, value), result |-> value]

\* @lru_cache(maxsize=1): a call with the cached arguments gets the cached
\* object; any other call runs the function, and its result replaces the entry
lru_cache(cache, key, value) ==
    IF cache.filled /\ cache.key = key
    THEN [cache |-> cache, result |-> cache.value]
    ELSE [cache |-> Entry(key, value), result |-> value]

\* accounts.json: the rows of the file, in order
AccountFiles ==
    {<<>>,
     <<[redisName |-> "fund2", monitored |-> TRUE]>>,
     <<[redisName |-> "fund2", monitored |-> FALSE],
       [redisName |-> "fund3", monitored |-> TRUE]>>,
     <<[redisName |-> "fund3", monitored |-> TRUE],
       [redisName |-> "fund2", monitored |-> TRUE]>>}

\* the body of api/utils/io.py load_accounts(monitored_only)
load_accounts(file, monitored_only) ==
    LET kept == SelectSeq(file, LAMBDA item : ~monitored_only \/ item.monitored)
    IN  [i \in DOMAIN kept |-> kept[i].redisName]

\* api_test/io/accounts.py get_accounts(monitored_only) on the cached rows
get_accounts(items, monitored_only) ==
    IF monitored_only THEN SelectSeq(items, LAMBDA x : x.monitored)
    ELSE items

\* what a request answers from the accounts it loaded and the live store
AccountsPayload(accounts, store) ==
    [accounts |-> accounts,
     upnl |-> [a \in Range(accounts) |-> store[a]]]

RequestKinds == {"load_accounts", "get_accounts"}

Requests == 1..MaxRequests

InitRequests ==
    /\ pc = "requests"
    /\ accounts_file \in AccountFiles
    /\ shared_store \in [Accounts -> UpnlValues]
    /\ engine_cache = NoEntry
    /\ accounts_cache = NoEntry
    /\ all_accounts_cache = NoEntry
    /\ requests \in [Requests -> {[kind |-> k, monitored_only |-> b,
                                   at |-> "start", engine |-> "",
                                   accounts |-> <<>>, payload |-> NoBlock] :
                                      k \in RequestKinds, b \in BOOLEAN}]
    /\ OthersIdle("requests")

\* eng = get_engine()
GetEngine(r) ==
    /\ pc = "requests"
    /\ requests[r].at = "start"
    /\ LET c == lru_cache(engine_cache, << >>, "engine")
       IN  /\ engine_cache' = c.cache
           /\ requests' = [requests EXCEPT ![r].at = "engine",
                                           ![r].engine = c.result]
    /\ UNCHANGED <<pc, accounts_file, shared_store, accounts_cache,
                   all_accounts_cache>>
    /\ OthersUnchanged("requests")

\* accounts = load_accounts(monitored_only) of api/utils/io.py
LoadAccounts(r) ==
    /\ pc = "requests"
    /\ requests[r].at = "engine"
    /\ requests[r].kind = "load_accounts"
    /\ LET c == lru_cache(accounts_cache, <<requests[r].monitored_only>>,
                          load_accounts(accounts_file,
                                        requests[r].monitored_only))
       IN  /\ accounts_cache' = c.cache
           /\ requests' = [requests EXCEPT ![r].at = "loaded",
                                           ![r].accounts = c.result]
    /\ UNCHANGED <<pc, accounts_file, shared_store, engine_cache,
                   all_accounts_cache>>
    /\ OthersUnchanged("requests")

\* items = get_accounts(monitored_only=...) of api_test/io/accounts.py,
\* then the redisName of every item
GetAccounts(r) ==
    /\ pc = "requests"
    /\ requests[r].at = "engine"
    /\ requests[r].kind = "get_accounts"
    /\ LET c == lru_cache(all_accounts_cache, << >>, accounts_file)
           items == get_accounts(c.result, requests[r].monitored_only)
       IN  /\ all_accounts_cache' = c.cache
           /\ requests' = [requests EXCEPT
                              ![r].at = "loaded",
                              ![r].accounts =
                                  [i \in DOMAIN items |-> items[i].redisName]]
    /\ UNCHANGED <<pc, accounts_file, shared_store, engine_cache,
                   accounts_cache>>
    /\ OthersUnchanged("requests")

\* the request reads the live store and answers
Respond(r) ==
    /\ pc = "requests"
    /\ requests[r].at = "loaded"
    /\ requests' = [requests EXCEPT
                       ![r].at = "done",
                       ![r].payload = AccountsPayload(requests[r].accounts,
                                                      shared_store)]
    /\ UNCHANGED <<pc, accounts_file, shared_store, engine_cache,
                   accounts_cache, all_accounts_cache>>
    /\ OthersUnchanged("requests")

NextRequests ==
    \E r \in Requests :
        \/ GetEngine(r)
        \/ LoadAccounts(r)
        \/ GetAccounts(r)
        \/ Respond(r)

SpecRequests == InitRequests /\ [][NextRequests]_vars

\* the payload of a request served alone, with nothing cached
PayloadAlone(r) ==
    LET wanted == SelectSeq(accounts_file,
                            LAMBDA item : requests[r].monitored_only
                                              => item.monitored)
    IN  [accounts |-> [i \in DOMAIN wanted |-> wanted[i].redisName],
         upnl |-> [a \in {wanted[i].redisName : i \in DOMAIN wanted} |->
                      shared_store[a]]]

\* C19: for fixed file and store contents, the payload of a finished
\* request is the payload it would have got alone, whatever the other
\* requests did before it or between its steps, and every request works
\* with the one cached engine.
C19_PayloadIndependentOfOtherRequests ==
    \A r \in Requests :
        requests[r].at = "done" =>
            /\ requests[r].payload = PayloadAlone(r)
            /\ requests[r].engine = "engine"

\* two requests went through the same cached function with different
\* arguments, one after the other, and got different account lists
C19_Witness ==
    \E r, q \in Requests :
        /\ r # q
        /\ requests[r].at = "done"
        /\ requests[q].at = "done"
        /\ requests[r].kind = "load_accounts"
        /\ requests[q].kind = "load_accounts"
        /\ requests[r].monitored_only # requests[q].monitored_only
        /\ requests[r].payload # requests[q].payload

--------------------------------------------------------------------------
(* Current drawdown of the request: where the peak comes from *)

\* the margin levels before the live uPnL is injected: realized + offsets
MarginWithoutLive == AddOffsets(fixed, unreal_map, accs)

\* (live - peak) / peak with the zero-peak guard
ClaimedCurrent(live, peak) ==
    IF peak # 0 THEN FDiv(live - peak, peak) ELSE Zero

\* current realized drawdown against the peak of the realized levels
RealizedPeakIsPure ==
    /\ \A a \in Range(accs) :
          dd.realized.current[a] =
              ClaimedCurrent(fixed.rows[Len(fixed.rows)][a] + Get(up_map, a),
                             SeqMax(Column(fixed, a)))
    /\ dd.realized.current["total"] =
          ClaimedCurrent(sum_row(fixed, accs) + Get(up_map, "total"),
                         SeqMax(Column(AssignTotal(fixed, accs), "total")))

\* current margin drawdown against the peak of the margin levels as they
\* were before the injection
MarginPeakIsPure ==
    /\ \A a \in Range(accs) :
          dd.margin.current[a] =
              ClaimedCurrent(margin.rows[Len(margin.rows)][a],
                             SeqMax(Column(MarginWithoutLive, a)))
    /\ dd.margin.current["total"] =
          ClaimedCurrent(sum_row(margin, accs),
                         SeqMax(Column(AssignTotal(MarginWithoutLive, accs),
                                       "total")))

\* C21: the current drawdown of both scopes compares the live value (last
\* level plus live uPnL) with the peak of the level series without live
\* injection; the margin peak never holds the uPnL injected into the last
\* margin row.
C21_PeakWithoutLiveInjection ==
    (pc \in {"dd", "done"} /\ ~Empty(fixed)) =>
        RealizedPeakIsPure /\ MarginPeakIsPure

--------------------------------------------------------------------------
(* Claim about the days the streaks of losing_days_mtd cover *)

\* today - 1 once the clock has passed today's cut, today - 2 before it
ClaimedLabel ==
    IF today_ts >= DayOf(today_ts) * DayLen + cut_hour
    THEN DayOf(today_ts) - 1
    ELSE DayOf(today_ts) - 2

\* one account's net PnL per day over start_day .. the claimed label
AccountSeries(a) ==
    LET days == [i \in 1..(ClaimedLabel + 1) |-> i - 1]
    IN  [index |-> days,
         values |-> [i \in DOMAIN days |-> NetOfDay(a, days[i])]]

\* the stored trades of requested accounts labelled later than the claimed label
LateTrades ==
    {r \in trade_rows :
        /\ r.account \in Range(req_accounts)
        /\ r.time <= today_ts
        /\ DayOf(r.time - cut_hour) > ClaimedLabel}

--------------------------------------------------------------------------
(* Claim about the rows of build_day_end_balances_fixed *)

\* the ledger's running balance once the window event at position i is applied
RunningAt(i) ==
    init_val + SumOver(NetOfEvents, {j \in WindowEvents : j <= i})

\* positions of the running-balance values observed on day d: the rows of
\* the window that are resampled, which are the non-transfer rows
ObservedOn(d) ==
    {i \in WindowEvents : ~IsTransfer(events[i]) /\ DayOf(events[i].time) = d}

\* C23: build_day_end_balances_fixed returns one row per calendar day of
\* [start_day, end_day]; a day's value is the last running balance observed
\* on that day, a day without an observation repeats the previous day's
\* value, and every day before the first observation holds the initial
\* balance.
C23_OneRowPerDayForwardFilled ==
    Built =>
        /\ bal.index = FullIdx
        /\ DOMAIN bal.values = DOMAIN FullIdx
        /\ \A k \in DOMAIN bal.values :
               LET d == bal.index[k]
               IN  bal.values[k] =
                       IF ObservedOn(d) # {}
                       THEN RunningAt(LastOf(ObservedOn(d)))
                       ELSE IF NonTransferUpTo(d) = {} THEN init_val
                       ELSE bal.values[k - 1]

\* two events observed on start_day and none on the next day: the second
\* row repeats the balance after the later event, which is not the initial one
C23_Witness ==
    /\ Built
    /\ Cardinality(ObservedOn(1)) = 2
    /\ ObservedOn(2) = {}
    /\ bal.values[1] = RunningAt(LastOf(ObservedOn(1)))
    /\ bal.values[2] = bal.values[1]
    /\ bal.values[2] # init_val

--------------------------------------------------------------------------
(* The snapshot lookup on its own: api/db/sql.py and                       *)
(* api_test/utils/sql_balances.py                                          *)

\* timestamps of snapshots and of lookups: two days of the model's clock
LookupTimes == 0..(2 * DayLen - 1)

\* the balance tables of an account; one row per timestamp
LookupTables ==
    SUBSET {[ts |-> t, bal |-> 100 * (t + 1)] : t \in LookupTimes}

InitSnapshot ==
    /\ pc = "lookup"
    /\ snap_table \in LookupTables
    /\ as_of \in LookupTimes
    /\ snap_path = ""
    /\ snapshot_out = NoBlock
    /\ OthersIdle("snapshot")

\* bal, ts = nearest_balance_on_or_before(account, start_ts)
NearestBalanceOnOrBefore ==
    /\ pc = "lookup"
    /\ snapshot_out' = nearest_balance_on_or_before(snap_table, as_of)
    /\ snap_path' = "api"
    /\ pc' = "lookup_done"
    /\ UNCHANGED <<snap_table, as_of>>
    /\ OthersUnchanged("snapshot")

\* nearest_val, anchor_ts = _nearest_balance_before(account, start_ts)
NearestBalanceBefore ==
    /\ pc = "lookup"
    /\ snapshot_out' = nearest_balance_before(snap_table, as_of)
    /\ snap_path' = "api_test"
    /\ pc' = "lookup_done"
    /\ UNCHANGED <<snap_table, as_of>>
    /\ OthersUnchanged("snapshot")

NextSnapshot ==
    \/ NearestBalanceOnOrBefore
    \/ NearestBalanceBefore

SpecSnapshot == InitSnapshot /\ [][NextSnapshot]_vars

\* the snapshots stamped at or before the timestamp asked for
AtOrBefore == {r \in snap_table : r.ts <= as_of}

\* C24: the lookup selects the snapshot with the greatest timestamp <= asOf;
\* when there is none it selects the snapshot with the smallest timestamp of
\* all, which is after asOf; when the account has no snapshot it returns
\* balance 0.0 with timestamp asOf.
C24_SnapshotLookup ==
    snapshot_out # NoBlock =>
        /\ AtOrBefore # {} =>
              /\ snapshot_out \in AtOrBefore
              /\ \A q \in AtOrBefore : q.ts <= snapshot_out.ts
        /\ (AtOrBefore = {} /\ snap_table # {}) =>
              /\ snapshot_out \in snap_table
              /\ \A q \in snap_table : snapshot_out.ts <= q.ts
              /\ snapshot_out.ts > as_of
        /\ snap_table = {} => snapshot_out = [ts |-> as_of, bal |-> 0]

\* both snapshots of the account are later than asOf and the earlier of the
\* two has been returned
C24_Witness ==
    /\ snapshot_out # NoBlock
    /\ Cardinality(snap_table) = 2
    /\ AtOrBefore = {}
    /\ snapshot_out \in snap_table
    /\ \E q \in snap_table : q.ts > snapshot_out.ts

--------------------------------------------------------------------------
(* The reads of the live store within one request, with the position feed  *)
(* writing to the store meanwhile: build_metrics_payload (api) and         *)
(* metrics_bulk_mtd (algoforce-analytics/api/index.py)                      *)

\* a stored JSON array of one position with unrealizedProfit x
Stored(x) == [kind |-> "positions", profits |-> <<[numeric |-> TRUE, v |-> x]>>]

\* a store that answers mget with one value per key
FullReply(accounts) == [mode |-> "list", len |-> Len(accounts)]

\* algoforce-analytics/api/utils/io.py read_upnl
utils_read_upnl(accounts, store) ==
    LET raws == mget(store, accounts, FullReply(accounts))
    IN  IF accounts # <<>>
        THEN ("total" :> ZipTotal(accounts, raws)) @@ ZipEntries(accounts, raws)
        ELSE ZipEntries(accounts, raws)

\* upnl_payload built from the map of the request's first read
upnl_payload_of_first_read(accounts, store) ==
    [combined |-> Get(up_used, "total"),
     perAccount |-> [a \in Range(accounts) |-> Get(up_used, a)]]

\* upnl_payload(accounts): {asOf, perAccount, combined} from one read_upnl
upnl_payload(accounts, store) ==
    LET m == read_upnl(accounts, store, FullReply(accounts)).out
    IN  [combined |-> Get(m, "total"),
         perAccount |-> [a \in Range(accounts) |-> Get(m, a)]]

ReadEndpoints == {"build_metrics_payload", "metrics_bulk_mtd"}

InitReads ==
    /\ pc = "rd_start"
    /\ rd_endpoint \in ReadEndpoints
    /\ rd_accs \in AccountLists \ {<<>>}
    /\ kv_store \in [Accounts -> {Stored(x) : x \in UpnlValues}]
    /\ writes_left = MaxWrites
    /\ rd_i = 0
    /\ up_used = NoBlock
    /\ injected = NoBlock
    /\ upnl_block = NoBlock
    /\ OthersIdle("reads")

\* the position feed replaces the value stored for one account
StoreWrite ==
    /\ pc \in {"rd_start", "rd_block", "rd_combined", "rd_per"}
    /\ writes_left > 0
    /\ \E a \in Accounts : \E x \in UpnlValues :
          /\ kv_store[a] # Stored(x)
          /\ kv_store' = [kv_store EXCEPT ![a] = Stored(x)]
    /\ writes_left' = writes_left - 1
    /\ UNCHANGED <<pc, rd_endpoint, rd_accs, rd_i, up_used, injected, upnl_block>>
    /\ OthersUnchanged("reads")

\* up_map = read_upnl(accs); margin = build_margin_series(fixed, unreal_map, up_map, accs)
ReadForMargin ==
    /\ pc = "rd_start"
    /\ rd_endpoint = "build_metrics_payload"
    /\ LET m == read_upnl(rd_accs, kv_store, FullReply(rd_accs)).out
       IN  /\ up_used' = m
           /\ injected' = [a \in Range(rd_accs) |-> Get(m, a)]
    /\ pc' = "rd_block"
    /\ UNCHANGED <<rd_endpoint, rd_accs, kv_store, writes_left, rd_i, upnl_block>>
    /\ OthersUnchanged("reads")

\* "uPnl": upnl_payload(accs)
UpnlPayload ==
    /\ pc = "rd_block"
    /\ upnl_block' = upnl_payload(rd_accs, kv_store)
    /\ pc' = "rd_done"
    /\ UNCHANGED <<rd_endpoint, rd_accs, kv_store, writes_left, rd_i, up_used,
                   injected>>
    /\ OthersUnchanged("reads")

\* up_used = read_upnl(accs); bal_with.at[last, a] += up_used.get(a, 0.0)
BulkReadForBalance ==
    /\ pc = "rd_start"
    /\ rd_endpoint = "metrics_bulk_mtd"
    /\ LET m == utils_read_upnl(rd_accs, kv_store)
       IN  /\ up_used' = m
           /\ injected' = [a \in Range(rd_accs) |-> Get(m, a)]
    /\ upnl_block' = [combined |-> 0, perAccount |-> << >>]
    /\ rd_i' = 1
    /\ pc' = "rd_combined"
    /\ UNCHANGED <<rd_endpoint, rd_accs, kv_store, writes_left>>
    /\ OthersUnchanged("reads")

\* one term of sum(read_upnl(accs).get(a, 0.0) for a in accs)
BulkCombinedRead ==
    /\ pc = "rd_combined"
    /\ LET m == utils_read_upnl(rd_accs, kv_store)
       IN  upnl_block' = [upnl_block EXCEPT
                             !.combined = @ + Get(m, rd_accs[rd_i])]
    /\ IF rd_i = Len(rd_accs)
       THEN pc' = "rd_per" /\ rd_i' = 1
       ELSE pc' = pc /\ rd_i' = rd_i + 1
    /\ UNCHANGED <<rd_endpoint, rd_accs, kv_store, writes_left, up_used, injected>>
    /\ OthersUnchanged("reads")

\* one entry of {a: float(read_upnl(accs).get(a, 0.0)) for a in accs}
BulkPerAccountRead ==
    /\ pc = "rd_per"
    /\ LET m == utils_read_upnl(rd_accs, kv_store)
           a == rd_accs[rd_i]
       IN  upnl_block' = [upnl_block EXCEPT
                             !.perAccount = (a :> Get(m, a)) @@ @]
    /\ IF rd_i = Len(rd_accs)
       THEN pc' = "rd_done" /\ rd_i' = 0
       ELSE pc' = pc /\ rd_i' = rd_i + 1
    /\ UNCHANGED <<rd_endpoint, rd_accs, kv_store, writes_left, up_used, injected>>
    /\ OthersUnchanged("reads")

NextReads ==
    \/ StoreWrite
    \/ ReadForMargin
    \/ UpnlPayload
    \/ BulkReadForBalance
    \/ BulkCombinedRead
    \/ BulkPerAccountRead

SpecReads == InitReads /\ [][NextReads]_vars

\* the live uPnL the store holds for an account right now
LiveNow(a) ==
    SeqSum([i \in DOMAIN kv_store[a].profits |-> kv_store[a].profits[i].v])

\* C25: within one request the live store is read more than once with no
\* snapshot isolation: the injection takes the values the store holds at the
\* first read and every later read for the uPnl block takes the values the
\* store holds at that later moment, so a write in between shows in the
\* response.
C25_EachReadSeesCurrentStore ==
    [][ /\ (pc = "rd_start" /\ pc' # pc) =>
              \A a \in Range(rd_accs) : injected'[a] = LiveNow(a)
        /\ (pc = "rd_block" /\ pc' # pc) =>
              /\ \A a \in Range(rd_accs) :
                    upnl_block'.perAccount[a] = LiveNow(a)
              /\ upnl_block'.combined =
                    SeqSum([i \in DOMAIN rd_accs |-> LiveNow(rd_accs[i])])
        /\ (pc = "rd_combined" /\ upnl_block' # upnl_block) =>
              upnl_block'.combined =
                  upnl_block.combined + LiveNow(rd_accs[rd_i])
        /\ (pc = "rd_per" /\ upnl_block' # upnl_block) =>
              upnl_block'.perAccount[rd_accs[rd_i]] = LiveNow(rd_accs[rd_i])
      ]_vars

\* a response of metrics_bulk_mtd after a write between the first read and
\* the combined sum and another before the per-account reads: perAccount
\* differs from the injected value and combined is not the sum of perAccount
C25_Witness ==
    /\ pc = "rd_done"
    /\ rd_endpoint = "metrics_bulk_mtd"
    /\ rd_accs = <<"fund2", "fund3">>
    /\ upnl_block.perAccount["fund2"] # injected["fund2"]
    /\ upnl_block.combined #
          upnl_block.perAccount["fund2"] + upnl_block.perAccount["fund3"]

--------------------------------------------------------------------------
(* Claim about a fallback anchor that is later than start_day *)

\* positions of the window events stamped after the chosen snapshot, up to
\* the end of day d
AfterSnapshotUpTo(d) ==
    {i \in WindowEvents :
        /\ events[i].time > ChosenSnapshot.ts
        /\ DayOf(events[i].time) <= d}

\* the only snapshot choice is the fallback, later than start_day; the window
\* holds no transfer and no event stamped at the snapshot's own second
FallbackAnchor ==
    /\ balance_table # {}
    /\ ChosenSnapshot.ts > StartTs
    /\ \A i \in WindowEvents :
          ~IsTransfer(events[i]) /\ events[i].time # ChosenSnapshot.ts

\* C26: with the fallback snapshot as anchor, the events stamped between
\* start_day and the snapshot are counted once: the realized value on and
\* after the snapshot's day is the snapshot value plus only the non-transfer
\* events stamped after the snapshot.
C26_FallbackCountsOnce ==
    (Built /\ FallbackAnchor) =>
        \A k \in DOMAIN bal.values :
            bal.index[k] >= DayOf(ChosenSnapshot.ts) =>
                bal.values[k] =
                    ChosenSnapshot.bal
                        + SumOver(NetOfEvents, AfterSnapshotUpTo(bal.index[k]))

--------------------------------------------------------------------------
(* Symbol PnL of the request: calculations/pnl_by_symbol.py, equity.py,    *)
(* db/sql.py.  start_day is day 0 and today is the last day of the window. *)

\* str(ts.date()): the day of a timestamp, its time of day dropped
date_iso(ts) == DayOf(ts)

\* what "time >= :start AND time <= :end" compares with for a bare date: its midnight
datetime_of_date(day_iso) == day_iso * DayLen

\* f"{day.date()} 00:00:00" and f"{day.date()} 23:59:59"
first_second(ts) == DayOf(ts) * DayLen
last_second(ts) == (DayOf(ts) + 1) * DayLen - 1

\* read_trades(account, start_dt, end_dt) with the symbol column
read_trades_by_symbol(rows, account, start_dt, end_dt) ==
    {[symbol |-> r.symbol, time |-> r.time,
      realizedPnl |-> r.realizedPnl - r.commission] :
        r \in {q \in rows : q.account = account /\ q.time >= start_dt /\ q.time <= end_dt}}

\* use.groupby("symbol")["realizedPnl"].sum()
GroupBySymbol(df) ==
    [s \in {r.symbol : r \in df} |->
        SumOver([r \in df |-> r.realizedPnl], {r \in df : r.symbol = s})]

\* pnl_by_symbol_mtd(accounts, start_day_iso, end_day_iso): (symbols, totals)
pnl_by_symbol_mtd(rows, accounts, start_day_iso, end_day_iso) ==
    LET df(a) == read_trades_by_symbol(rows, a, datetime_of_date(start_day_iso),
                                       datetime_of_date(end_day_iso))
        framed == {a \in Range(accounts) : df(a) # {}}
        grp == [a \in framed |-> GroupBySymbol(df(a))]
        cell(s, a) == Get(grp[a], s)
        table == [s \in UNION {DOMAIN grp[a] : a \in framed} |->
                     [c \in framed \cup {"TOTAL"} |->
                         IF c = "TOTAL"
                         THEN SumOver([a \in framed |-> cell(s, a)], framed)
                         ELSE cell(s, c)]]
    IN  IF framed = {}
        THEN [symbols |-> << >>, totals |-> [a \in Range(accounts) |-> 0]]
        ELSE [symbols |-> table,
              totals |-> [c \in framed |->
                             SumOver([s \in DOMAIN table |-> table[s][c]],
                                     DOMAIN table)]]

\* the seconds of the window's days and the first second after the window
SymbolTimes == 0..(MaxDays * DayLen)

\* trades of net -3 and +3 (commission 1) in two symbols
SymbolRows ==
    {[account |-> a, symbol |-> s, time |-> t,
      realizedPnl |-> p, commission |-> 1] :
        a \in Accounts, s \in {"BTCUSDT", "ETHUSDT"}, t \in SymbolTimes,
        p \in {-2, 4}}

\* today at 00:00:00, as _mtd_window_today returns it
Today == (MaxDays - 1) * DayLen

InitSymbols ==
    /\ pc = "symbols"
    /\ sym_accs \in AccountLists
    /\ sym_rows \in SubsetsUpTo(SymbolRows, MaxEvents)
    /\ sym_feed = NoBlock
    /\ sym_out = NoBlock
    /\ OthersIdle("symbols")

\* build_fixed_balances(accs, start_day, today): tr = read_trades(acc, ...)
FixedTrades ==
    /\ pc = "symbols"
    /\ sym_feed' = [a \in Range(sym_accs) |->
                       read_trades_by_symbol(sym_rows, a, first_second(0),
                                             last_second(Today))]
    /\ pc' = "symbols_fixed"
    /\ UNCHANGED <<sym_accs, sym_rows, sym_out>>
    /\ OthersUnchanged("symbols")

\* symbols, totals_by_acc = pnl_by_symbol_mtd(accs, str(start_day.date()), str(today.date()))
PnlBySymbolMtd ==
    /\ pc = "symbols_fixed"
    /\ sym_out' = pnl_by_symbol_mtd(sym_rows, sym_accs, date_iso(0), date_iso(Today))
    /\ pc' = "symbols_done"
    /\ UNCHANGED <<sym_accs, sym_rows, sym_feed>>
    /\ OthersUnchanged("symbols")

NextSymbols ==
    \/ FixedTrades
    \/ PnlBySymbolMtd

SpecSymbols == InitSymbols /\ [][NextSymbols]_vars

\* the sum over the symbols of the payload of one account's symbol PnL
SumOverSymbols(a) ==
    SumOver([s \in DOMAIN sym_out.symbols |-> Get(sym_out.symbols[s], a)],
            DOMAIN sym_out.symbols)

\* the account's net trade PnL over [start_day 00:00:00, end_day 23:59:59]
NetTradePnl(a) ==
    LET mine == {r \in sym_rows :
                    /\ r.account = a
                    /\ r.time >= 0
                    /\ r.time <= MaxDays * DayLen - 1}
    IN  SumOver([r \in mine |-> r.realizedPnl - r.commission], mine)

\* C27: for each requested account the sum over symbols of its symbol PnL
\* is the account's net trade PnL over [start_day 00:00:00, end_day
\* 23:59:59]: symbol PnL covers the trades that feed the realized series,
\* those of end_day included.
C27_SymbolPnlCoversWindow ==
    pc = "symbols_done" =>
        \A a \in Range(sym_accs) :
            /\ SumOverSymbols(a) = NetTradePnl(a)
            /\ SumOverSymbols(a) =
                  SumOver([r \in sym_feed[a] |-> r.realizedPnl], sym_feed[a])

--------------------------------------------------------------------------
(* Claim about the day label of a trade *)

\* net PnL of the trades of account a made from D@H up to one second before
\* (D + 1)@H, among the trades losing_days_mtd reads
NetOfSession(a, d) ==
    LET mine == {r \in trade_rows :
                    /\ r.account = a
                    /\ r.time <= today_ts
                    /\ r.time >= d * DayLen + cut_hour
                    /\ r.time <= (d + 1) * DayLen + cut_hour - 1}
    IN  SumOver([r \in mine |-> r.realizedPnl - r.commission], mine)

\* the sessions start_day .. last complete label, per account and summed
SessionSeries(accounts) ==
    LET days == [i \in 1..(ClaimedLabel + 1) |-> i - 1]
    IN  [index |-> days,
         values |-> [i \in DOMAIN days |->
                        SeqSum([k \in DOMAIN accounts |->
                                   NetOfSession(accounts[k], days[i])])]]

\* the stored trades made in the first H hours of start_day
EarlyTrades == {r \in trade_rows : r.time < cut_hour}

\* C28: a trade at time t carries the day label floor(t - H hours): a trade
\* at exactly D@H belongs to D and a trade one second earlier to D - 1; a
\* trade made in the first H hours of start_day has a label before
\* start_day and is counted in no per-account or combined streak.
C28_LabelIsShiftedDay ==
    losing # NoBlock =>
        /\ ClaimedLabel >= 0 =>
              /\ \A a \in Range(req_accounts) :
                    losing.perAccount[a] = ClaimedStreak(SessionSeries(<<a>>))
              /\ losing.combined = ClaimedStreak(SessionSeries(req_accounts))
        /\ losing = losing_days_mtd(trade_rows \ EarlyTrades, req_accounts,
                                    cut_hour, 0, today_ts)

\* a losing trade one second before the first cut of start_day and a losing
\* trade exactly on that cut: the streak holds start_day with the second
\* trade's amount alone
C28_Witness ==
    /\ losing # NoBlock
    /\ cut_hour > 0
    /\ req_accounts = <<"fund2">>
    /\ ClaimedLabel >= 0
    /\ \E early \in EarlyTrades : \E r \in trade_rows :
          /\ early.account = "fund2"
          /\ early.time = cut_hour - 1
          /\ early.realizedPnl - early.commission < 0
          /\ r.account = "fund2"
          /\ r.time = cut_hour
          /\ losing.perAccount["fund2"].consecutive = 1
          /\ losing.perAccount["fund2"].days = (0 :> (r.realizedPnl - r.commission))
          /\ losing.combined.days = (0 :> (r.realizedPnl - r.commission))

--------------------------------------------------------------------------
(* Claim about the first row of the realized series *)

\* net PnL of the trades, funding fees and earnings stamped from..to, both
\* ends included; transfers are left out
PnlBetween(from, to) ==
    SeqSum([i \in DOMAIN real_events |->
               IF /\ IsLedgerEvent(real_events[i])
                  /\ ~IsTransfer(real_events[i])
                  /\ from <= real_events[i].time
                  /\ real_events[i].time <= to
               THEN Net(real_events[i]) ELSE 0])

\* the PnL of start_day and the PnL of the rest of the window
FirstDayPnl == PnlBetween(StartTs, StartTs + DayLen - 1)
LaterDaysPnl == PnlBetween(StartTs + DayLen, EndTsExcl - 1)

\* C29: in build_metrics_payload the first row of an account's realized
\* series is initialBalance plus the account's net non-transfer PnL of
\* start_day, not the bare initial balance, so mtd_return on that series is
\* the PnL made after the first day over the first day's closing level and
\* leaves the first day's PnL out.
C29_FirstRowHoldsFirstDayPnl ==
    (pc = "measured" /\ real_path = "api") =>
        /\ real_levels.values[1] = real_init + FirstDayPnl
        /\ real_ret = IF real_init + FirstDayPnl # 0
                      THEN FDiv(LaterDaysPnl, real_init + FirstDayPnl)
                      ELSE Zero

\* the whole PnL of the window is made on start_day: the first row is above
\* the opening balance and the reported return is 0.0
C29_Witness ==
    /\ pc = "measured"
    /\ real_path = "api"
    /\ real_init > 0
    /\ FirstDayPnl > 0
    /\ LaterDaysPnl = 0
    /\ real_levels.values[1] = real_init + FirstDayPnl
    /\ real_levels.values[1] # real_init
    /\ real_ret = Zero

--------------------------------------------------------------------------
(* Claim about the order of the two margin drawdowns *)

\* every account's level on every row of the margin frame is positive
MarginLevelsPositive ==
    /\ ~Empty(margin)
    /\ \A i \in DOMAIN margin.rows : \A a \in Range(accs) :
          margin.rows[i][a] > 0

\* C30: whenever all margin levels are positive, for every account and for
\* total the reported margin max drawdown is <= the reported margin current
\* drawdown and both are <= 0, for any realized levels and any live uPnL.
C30_MarginMaxBelowCurrent ==
    (pc \in {"dd", "done"} /\ MarginLevelsPositive) =>
        \A k \in Range(accs) \cup {"total"} :
            /\ FLeq(dd.margin.max[k], dd.margin.current[k])
            /\ FLeq(dd.margin.current[k], Zero)

\* a negative live uPnL takes the last margin row below its peak: the
\* current margin drawdown is below 0 and the max drawdown is not above it
C30_Witness ==
    /\ pc = "dd"
    /\ MarginLevelsPositive
    /\ accs = <<"fund2", "fund3">>
    /\ Len(margin.rows) = MaxDays
    /\ Get(up_map, "fund2") < 0
    /\ dd.margin.current["fund2"] # Zero
    /\ FLeq(dd.margin.current["fund2"], Zero)
    /\ FLeq(dd.margin.max["fund2"], dd.margin.current["fund2"])
    /\ dd.margin.current["total"] # Zero
    /\ FLeq(dd.margin.max["total"], dd.margin.current["total"])
    /\ dd.margin.current["fund3"] = Zero

====
